---------------------------- MODULE Spec2Model ----------------------------
(***************************************************************************)
(* Walk-in clinic discrete-event simulation: main.py (stationary           *)
(* arrivals), main_nonstationary.py (hourly rate table) and the service-   *)
(* level checks of main.py, main_nonstationary.py, staffing_optimizer.py.  *)
(*                                                                         *)
(* Time is counted in ticks of a tenth of a minute, so that the            *)
(* Examination floor of 0.1 minute is one tick.  Variates are drawn by     *)
(* \E from small sets: the draw of a stream is any value its distribution  *)
(* can produce.                                                            *)
(***************************************************************************)
EXTENDS Integers, Sequences, FiniteSets, TLC

VARIABLES
    phase,              \* "idle": between replications; "loop": in the event loop
    mode,               \* "S": RunSimulation, "NS": RunSimulationNonStationary
    reps,               \* replications started so far in this process
    fresh,              \* TRUE from the seeding of a replication to its first dispatch
    staff_levels,       \* the staff_levels argument of the running replication
    result,             \* the dict returned by the last finished replication
    Clock,              \* SimClasses.Clock
    Calendar,           \* main.Calendar: pending events, earliest first
    Busy,               \* Resource.Busy of each station
    Units,              \* Resource.NumberOfUnits of each station
    Queue,              \* FIFOQueue of each station
    TotalArrivals,      \* module global, one per module (main, ns)
    TraumaPatients,     \* module global, one per module
    NonTraumaPatients,  \* module global, one per module
    PatientsCompleted,  \* module global, one per module
    TraumaPercentage,   \* module global, one per module
    ArrivalRatesByHour, \* main_nonstationary.ArrivalRatesByHour
    fault,              \* a fatal programming error happened (free of an idle resource)
    npat,               \* history: patients created in this replication
    visits,             \* history: visits[id] = the trauma flag patient id got at
                        \* arrival, the station queues it entered, in order, and
                        \* the Clock of its arrival
    discharged,         \* history: ids of the patients discharged in this replication
    scheduled,          \* history: the Schedule/SchedulePlus calls of the last step
    waits,              \* history: the DTStat.Record calls of the last step
    drawn,              \* history: the variates the last step took from the streams
    tickets,            \* history: per station, for each waiting patient the rank
                        \* and the Clock at which it joined the queue
    turns,              \* history: per station, the ranks of the patients whose
                        \* service started, in the order of the starts
    cap,                \* the number of arrivals this replication is followed for
    interarrivals,      \* the values the arrival stream yields in this replication
    ci_results,         \* the ci_results dict the service-level checks read
    verdict,            \* what each service-level check answered on ci_results
    called,             \* the last call of a helper function: its name, its arguments
    returned            \* what that call returned

vars == <<phase, mode, reps, fresh, staff_levels, result, Clock, Calendar, Busy,
          Units, Queue, TotalArrivals, TraumaPatients, NonTraumaPatients,
          PatientsCompleted, TraumaPercentage, ArrivalRatesByHour, fault, npat,
          visits, discharged, scheduled, waits, drawn, tickets, turns, cap,
                   interarrivals,
          ci_results, verdict, called, returned>>

simvars == <<phase, mode, reps, fresh, staff_levels, result, Clock, Calendar, Busy,
             Units, Queue, TotalArrivals, TraumaPatients, NonTraumaPatients,
             PatientsCompleted, TraumaPercentage, ArrivalRatesByHour, fault, npat,
             visits, discharged, scheduled, waits, drawn, tickets, turns, cap,
                   interarrivals>>

-----------------------------------------------------------------------------
(* Bounds of the model *)

MaxPatients == 2

MaxReps == 2

(* The longest list of observations ConfidenceInterval is called on.        *)
MaxObs == 3

(* The most rows a file read by LoadArrivalData has after its header.       *)
MaxRows == 2

(* The number of arrivals a replication with a first-hour-only rate table   *)
(* is followed for: more than it can have.                                  *)
MaxChain == 20

(* Program constants *)

TicksPerMinute == 10

SimulationHours == 18

SimulationTime == SimulationHours * 60 * TicksPerMinute

ExamFloor == 1

DischargePct == 40

FallbackDelay == 60 * TicksPerMinute

Stations == {"SignInTriage", "Registration", "Examination", "Trauma", "Treatment"}

Modules == {"main", "ns"}

(* Inputs: what the variate streams may return, in ticks (service and       *)
(* interarrival times) or in percent (the uniform draws of lcgrand).        *)

ArrivalDraws == {TicksPerMinute, SimulationTime}

TriageDraws == {3 * TicksPerMinute}

(* An interarrival time of a whole hour.                                    *)
HourDraws == {60 * TicksPerMinute}

(* Interarrival times of half an hour and of just under an hour: a first   *)
(* hour with several arrivals, and a draw that ends on the hour itself.     *)
ChainDraws == {30 * TicksPerMinute, 59 * TicksPerMinute}

RegistrationDraws == {2 * TicksPerMinute}

ExamDraws == {-5, 0, 2 * TicksPerMinute}

TraumaDraws == {2 * TicksPerMinute}

TreatmentDraws == {3 * TicksPerMinute}

UDraws == {0, 50}

(* The discharge decision: a draw below 0.40 and the draw 0.40 itself.      *)
DischargeDraws == {5, DischargePct}

(* The first interarrival time of a non-stationary replication: also one    *)
(* of sixteen hours, which lands in the later hours of the rate table.      *)
FirstArrivalDrawsNS == ArrivalDraws \cup {16 * 60 * TicksPerMinute}

(* Staffing: one unit everywhere (capacity binds), as many units as       *)
(* patients everywhere (capacity never binds), and a station without staff. *)
Staff(c) == [s \in Stations |-> c]

Unstaffed(s0) == [s \in Stations |-> IF s = s0 THEN 0 ELSE 1]

ConstantRates(c) == [h \in 1..SimulationHours |-> c]

FirstHourRates(c) == [h \in 1..SimulationHours |-> IF h = 1 THEN c ELSE 0]

(* The arguments of RunSimulation: trauma_pct (in percent), staff_levels.   *)
(* patients: the number of arrivals the replication is followed for; one    *)
(* more without trauma patients and with one unit per station, where the    *)
(* queues get longest.                                                      *)
Scenario(trauma_pct, staff, patients, draws) ==
    [trauma_pct |-> trauma_pct, staff |-> staff, patients |-> patients,
     interarrivals |-> draws]

Scenarios ==
    {Scenario(10, Staff(1), MaxPatients, ArrivalDraws),
     Scenario(10, Staff(MaxPatients), MaxPatients, ArrivalDraws),
     Scenario(0, Staff(1), MaxPatients + 1, ArrivalDraws),
     Scenario(10, Unstaffed("Treatment"), MaxPatients, ArrivalDraws),
     Scenario(10, Unstaffed("SignInTriage"), MaxPatients, ArrivalDraws),
     Scenario(0, Staff(1), MaxPatients, TriageDraws)}

(* The arguments of RunSimulationNonStationary, the rate table its          *)
(* LoadArrivalData call returns (patients per hour) and the values the      *)
(* arrival stream yields.                                                   *)
ScenarioNonStationary(trauma_pct, staff, rates, draws) ==
    [trauma_pct |-> trauma_pct, staff |-> staff, rates |-> rates,
     interarrivals |-> draws]

ScenariosNonStationary ==
    {ScenarioNonStationary(10, Staff(1), ConstantRates(10), ArrivalDraws),
     ScenarioNonStationary(10, Staff(MaxPatients), FirstHourRates(10),
                           ArrivalDraws),
     ScenarioNonStationary(0, Staff(1), FirstHourRates(10), ArrivalDraws),
     ScenarioNonStationary(10, Unstaffed("Treatment"), ConstantRates(10),
                           ArrivalDraws),
     ScenarioNonStationary(10, Staff(1), ConstantRates(0), ArrivalDraws),
     ScenarioNonStationary(0, Staff(1), ConstantRates(10),
                           TriageDraws \cup HourDraws)}

-----------------------------------------------------------------------------
(* The simulation state as one value, so that a handler is a function.      *)

State ==
    [Clock |-> Clock, Calendar |-> Calendar, Busy |-> Busy, Units |-> Units,
     Queue |-> Queue, TotalArrivals |-> TotalArrivals,
     TraumaPatients |-> TraumaPatients, NonTraumaPatients |-> NonTraumaPatients,
     PatientsCompleted |-> PatientsCompleted, TraumaPercentage |-> TraumaPercentage,
     ArrivalRatesByHour |-> ArrivalRatesByHour, fault |-> fault, npat |-> npat,
     visits |-> visits, discharged |-> discharged, scheduled |-> scheduled,
     waits |-> waits, drawn |-> drawn, tickets |-> tickets, turns |-> turns]

(* The new state is computed once and assigned field by field (as the      *)
(* popped state st of the Dispatch actions is computed once).               *)
Becomes(new) ==
  \E st \in {new} :
    /\ Clock' = st.Clock
    /\ Calendar' = st.Calendar
    /\ Busy' = st.Busy
    /\ Units' = st.Units
    /\ Queue' = st.Queue
    /\ TotalArrivals' = st.TotalArrivals
    /\ TraumaPatients' = st.TraumaPatients
    /\ NonTraumaPatients' = st.NonTraumaPatients
    /\ PatientsCompleted' = st.PatientsCompleted
    /\ TraumaPercentage' = st.TraumaPercentage
    /\ ArrivalRatesByHour' = st.ArrivalRatesByHour
    /\ fault' = st.fault
    /\ npat' = st.npat
    /\ visits' = st.visits
    /\ discharged' = st.discharged
    /\ scheduled' = st.scheduled
    /\ waits' = st.waits
    /\ drawn' = st.drawn
    /\ tickets' = st.tickets
    /\ turns' = st.turns

(* class Patient(SimClasses.Entity): CreateTime is the Clock of creation.   *)
Patient(id, now) ==
    [id |-> id, IsTrauma |-> FALSE, CreateTime |-> now, TriageTime |-> 0,
     RegistrationTime |-> 0, ExaminationTime |-> 0, TraumaTime |-> 0,
     TreatmentTime |-> 0]

NoPatient == Patient(0, 0)

-----------------------------------------------------------------------------
(* Event calendar, resources and queues (SimClasses / SimFunctions).        *)

(* EventCalendar.Schedule: the event goes behind every event whose time is  *)
(* not later than its own (stable, first in first out among equal times).   *)
CalendarInsert(cal, ev) ==
    LET k == Cardinality({i \in 1..Len(cal) : cal[i].EventTime <= ev.EventTime})
    IN  SubSeq(cal, 1, k) \o <<ev>> \o SubSeq(cal, k + 1, Len(cal))

(* SimFunctions.SchedulePlus(calendar, EventType, EventTime, TheObject)     *)
SchedulePlus(st, EventType, delay, TheObject) ==
    [st EXCEPT
        !.Calendar = CalendarInsert(@,
            [EventType |-> EventType, EventTime |-> st.Clock + delay,
             WhichObject |-> TheObject]),
        !.scheduled = Append(@,
            [EventType |-> EventType, delay |-> delay, who |-> TheObject.id])]

(* SimFunctions.Schedule(calendar, EventType, EventTime)                    *)
Schedule(st, EventType, delay) ==
    SchedulePlus(st, EventType, delay, NoPatient)

(* Resource.Seize(1): whether a unit is free; SeizeUnit takes it.           *)
Seize(st, s) ==
    st.Busy[s] + 1 <= st.Units[s]

SeizeUnit(st, s) ==
    [st EXCEPT !.Busy[s] = @ + 1]

(* Resource.Free(1): gives a unit back; freeing an idle resource is a       *)
(* fatal programming error and changes nothing else.                        *)
Free(st, s) ==
    IF st.Busy[s] - 1 < 0
        THEN [st EXCEPT !.fault = TRUE]
        ELSE [st EXCEPT !.Busy[s] = @ - 1]

(* Resource.SetUnits(n)                                                     *)
SetUnits(st, s, n) ==
    [st EXCEPT !.Units[s] = n]

(* FIFOQueue.Add(patient): to the tail.  The patient gets the next rank of  *)
(* the station: one more than the patients that joined before it.           *)
QueueAdd(st, s, patient) ==
    [st EXCEPT !.Queue[s] = Append(@, patient),
               !.visits[patient.id].path = Append(@, s),
               !.tickets[s] = @ \cup
                    {[id |-> patient.id,
                      no |-> Len(st.turns[s]) + Cardinality(st.tickets[s]) + 1,
                      at |-> st.Clock]}]

(* FIFOQueue.Remove(): from the head.                                       *)
QueueRemove(st, s) ==
    [st EXCEPT !.Queue[s] = Tail(@)]

(* DTStat.Record(wait_time), called when the service of patient starts:     *)
(* the patient gives its ticket back.                                       *)
Record(st, s, patient, wait_time) ==
    LET t == CHOOSE t \in st.tickets[s] : t.id = patient.id
    IN  [st EXCEPT !.waits = Append(@, [station |-> s, who |-> patient.id,
                                        wait |-> wait_time, joined |-> t.at,
                                        at |-> st.Clock]),
                   !.tickets[s] = @ \ {t},
                   !.turns[s] = Append(@, t.no)]

(* SimRNG.lcgrand / Expon / Lognormal / Normal: one variate taken from a    *)
(* stream.                                                                  *)
Draw(st, stream, value) ==
    [st EXCEPT !.drawn = Append(@, [stream |-> stream, value |-> value])]

(* SimFunctions.SimFunctionsInit(Calendar): Clock to 0, the calendar and    *)
(* every queue emptied, every resource idle, every collector cleared.       *)
SimFunctionsInit(st) ==
    [st EXCEPT !.Clock = 0,
               !.Calendar = <<>>,
               !.Queue = [s \in Stations |-> <<>>],
               !.Busy = [s \in Stations |-> 0],
               !.fault = FALSE]

-----------------------------------------------------------------------------
(* main.py: the five Process* loops.  ds holds the service-time draws the   *)
(* loop consumes, one per patient it starts.                                *)

(* Mutant of ProcessSignInTriage: the patient that joined last is served    *)
(* first.                                                                   *)
RECURSIVE ProcessSignInTriage_LastFirst(_, _)
ProcessSignInTriage_LastFirst(st, ds) ==
    IF Len(st.Queue["SignInTriage"]) > 0 /\ Seize(st, "SignInTriage")
    THEN LET n == Len(st.Queue["SignInTriage"])
             patient == st.Queue["SignInTriage"][n]
             s1 == [SeizeUnit(st, "SignInTriage") EXCEPT
                        !.Queue["SignInTriage"] = SubSeq(@, 1, n - 1)]
             wait_time == st.Clock - patient.CreateTime
             s2 == Draw(Record(s1, "SignInTriage", patient, wait_time),
                        "TriageStream", Head(ds))
             service_time == Head(ds)
         IN  ProcessSignInTriage_LastFirst(
                 SchedulePlus(s2, "EndSignInTriage", service_time, patient),
                 Tail(ds))
    ELSE st

RECURSIVE ProcessSignInTriage(_, _)
ProcessSignInTriage(st, ds) ==
    IF Len(st.Queue["SignInTriage"]) > 0 /\ Seize(st, "SignInTriage")
    THEN LET patient == Head(st.Queue["SignInTriage"])
             s1 == QueueRemove(SeizeUnit(st, "SignInTriage"), "SignInTriage")
             wait_time == st.Clock - patient.CreateTime
             s2 == Draw(Record(s1, "SignInTriage", patient, wait_time),
                        "TriageStream", Head(ds))
             service_time == Head(ds)
         IN  ProcessSignInTriage(
                 SchedulePlus(s2, "EndSignInTriage", service_time, patient),
                 Tail(ds))
    ELSE st

RECURSIVE ProcessRegistration(_, _)
ProcessRegistration(st, ds) ==
    IF Len(st.Queue["Registration"]) > 0 /\ Seize(st, "Registration")
    THEN LET patient == Head(st.Queue["Registration"])
             s1 == QueueRemove(SeizeUnit(st, "Registration"), "Registration")
             wait_time == st.Clock - patient.TriageTime
             s2 == Draw(Record(s1, "Registration", patient, wait_time),
                        "RegistrationStream", Head(ds))
             service_time == Head(ds)
         IN  ProcessRegistration(
                 SchedulePlus(s2, "EndRegistration", service_time, patient),
                 Tail(ds))
    ELSE st

(* Mutants of ExaminationServiceTime: the draw used as it comes; the floor  *)
(* written with the wrong sign.                                             *)
ExaminationServiceTime_NoClamp(draw) ==
    draw

ExaminationServiceTime_NegativeFloor(draw) ==
    IF draw < 0 THEN -ExamFloor ELSE draw

(* The Normal draw of the Examination time: a negative draw becomes 0.1.    *)
ExaminationServiceTime(draw) ==
    IF draw < 0 THEN ExamFloor ELSE draw

RECURSIVE ProcessExamination(_, _)
ProcessExamination(st, ds) ==
    IF Len(st.Queue["Examination"]) > 0 /\ Seize(st, "Examination")
    THEN LET patient == Head(st.Queue["Examination"])
             s1 == QueueRemove(SeizeUnit(st, "Examination"), "Examination")
             wait_time == st.Clock - patient.RegistrationTime
             s2 == Draw(Record(s1, "Examination", patient, wait_time),
                        "ExaminationStream", Head(ds))
             service_time == ExaminationServiceTime(Head(ds))
         IN  ProcessExamination(
                 SchedulePlus(s2, "EndExamination", service_time, patient),
                 Tail(ds))
    ELSE st

RECURSIVE ProcessTrauma(_, _)
ProcessTrauma(st, ds) ==
    IF Len(st.Queue["Trauma"]) > 0 /\ Seize(st, "Trauma")
    THEN LET patient == Head(st.Queue["Trauma"])
             s1 == QueueRemove(SeizeUnit(st, "Trauma"), "Trauma")
             wait_time == st.Clock - patient.TriageTime
             s2 == Draw(Record(s1, "Trauma", patient, wait_time),
                        "TraumaStream", Head(ds))
             service_time == Head(ds)
         IN  ProcessTrauma(
                 SchedulePlus(s2, "EndTrauma", service_time, patient),
                 Tail(ds))
    ELSE st

(* Mutant of ProcessTreatment: the wait is measured from ExaminationTime    *)
(* for every patient.                                                       *)
RECURSIVE ProcessTreatment_AlwaysExaminationTime(_, _)
ProcessTreatment_AlwaysExaminationTime(st, ds) ==
    IF Len(st.Queue["Treatment"]) > 0 /\ Seize(st, "Treatment")
    THEN LET patient == Head(st.Queue["Treatment"])
             s1 == QueueRemove(SeizeUnit(st, "Treatment"), "Treatment")
             wait_time == st.Clock - patient.ExaminationTime
             s2 == Draw(Record(s1, "Treatment", patient, wait_time),
                        "TreatmentStream", Head(ds))
             service_time == Head(ds)
         IN  ProcessTreatment_AlwaysExaminationTime(
                 SchedulePlus(s2, "EndTreatment", service_time, patient),
                 Tail(ds))
    ELSE st

RECURSIVE ProcessTreatment(_, _)
ProcessTreatment(st, ds) ==
    IF Len(st.Queue["Treatment"]) > 0 /\ Seize(st, "Treatment")
    THEN LET patient == Head(st.Queue["Treatment"])
             s1 == QueueRemove(SeizeUnit(st, "Treatment"), "Treatment")
             wait_time == IF patient.IsTrauma
                              THEN st.Clock - patient.TraumaTime
                              ELSE st.Clock - patient.ExaminationTime
             s2 == Draw(Record(s1, "Treatment", patient, wait_time),
                        "TreatmentStream", Head(ds))
             service_time == Head(ds)
         IN  ProcessTreatment(
                 SchedulePlus(s2, "EndTreatment", service_time, patient),
                 Tail(ds))
    ELSE st

-----------------------------------------------------------------------------
(* main.py: the completion handlers.  dsNext are the draws of the drain of  *)
(* the station the patient is routed to, dsSelf those of the re-drain of    *)
(* the station it leaves; u is the uniform draw of a decision stream.       *)

(* Mutant of EndSignInTriage: every patient is sent to Registration.        *)
EndSignInTriage_AlwaysRegistration(st, patient, dsNext, dsSelf) ==
    LET s1 == Free(st, "SignInTriage")
        p  == [patient EXCEPT !.TriageTime = st.Clock]
        s2 == ProcessRegistration(QueueAdd(s1, "Registration", p), dsNext)
    IN  ProcessSignInTriage(s2, dsSelf)

EndSignInTriage(st, patient, dsNext, dsSelf) ==
    LET s1 == Free(st, "SignInTriage")
        p  == [patient EXCEPT !.TriageTime = st.Clock]
        s2 == IF p.IsTrauma
                  THEN ProcessTrauma(QueueAdd(s1, "Trauma", p), dsNext)
                  ELSE ProcessRegistration(QueueAdd(s1, "Registration", p), dsNext)
    IN  ProcessSignInTriage(s2, dsSelf)

(* Mutant of EndRegistration: the Examination queue is not drained after    *)
(* the patient joined it.                                                   *)
EndRegistration_NoDrainNext(st, patient, dsNext, dsSelf) ==
    LET s1 == Free(st, "Registration")
        p  == [patient EXCEPT !.RegistrationTime = st.Clock]
        s2 == QueueAdd(s1, "Examination", p)
    IN  ProcessRegistration(s2, dsSelf)

(* Mutant of EndRegistration: the unit is not given back.                   *)
EndRegistration_NoFree(st, patient, dsNext, dsSelf) ==
    LET p  == [patient EXCEPT !.RegistrationTime = st.Clock]
        s2 == ProcessExamination(QueueAdd(st, "Examination", p), dsNext)
    IN  ProcessRegistration(s2, dsSelf)

EndRegistration(st, patient, dsNext, dsSelf) ==
    LET s1 == Free(st, "Registration")
        p  == [patient EXCEPT !.RegistrationTime = st.Clock]
        s2 == ProcessExamination(QueueAdd(s1, "Examination", p), dsNext)
    IN  ProcessRegistration(s2, dsSelf)

(* Mutant of EndExamination: a discharged patient is sent to Treatment      *)
(* all the same.                                                            *)
EndExamination_DischargedStillQueued(st, patient, u, dsNext, dsSelf) ==
    LET s0 == Free(st, "Examination")
        p  == [patient EXCEPT !.ExaminationTime = st.Clock]
        s1 == Draw(s0, "DischargeDecisionStream", u)
        s2 == IF u < DischargePct
                  THEN ProcessTreatment(
                           QueueAdd([s1 EXCEPT !.PatientsCompleted["main"] = @ + 1,
                                               !.discharged = @ \cup {p.id}],
                                    "Treatment", p),
                           dsNext)
                  ELSE ProcessTreatment(QueueAdd(s1, "Treatment", p), dsNext)
    IN  ProcessExamination(s2, dsSelf)

(* Mutant of EndExamination: a draw of exactly 0.40 discharges too.         *)
EndExamination_DischargeAtBoundary(st, patient, u, dsNext, dsSelf) ==
    LET s0 == Free(st, "Examination")
        p  == [patient EXCEPT !.ExaminationTime = st.Clock]
        s1 == Draw(s0, "DischargeDecisionStream", u)
        s2 == IF u <= DischargePct
                  THEN [s1 EXCEPT !.PatientsCompleted["main"] = @ + 1,
                                  !.discharged = @ \cup {p.id}]
                  ELSE ProcessTreatment(QueueAdd(s1, "Treatment", p), dsNext)
    IN  ProcessExamination(s2, dsSelf)

EndExamination(st, patient, u, dsNext, dsSelf) ==
    LET s0 == Free(st, "Examination")
        p  == [patient EXCEPT !.ExaminationTime = st.Clock]
        s1 == Draw(s0, "DischargeDecisionStream", u)
        s2 == IF u < DischargePct
                  THEN [s1 EXCEPT !.PatientsCompleted["main"] = @ + 1,
                                  !.discharged = @ \cup {p.id}]
                  ELSE ProcessTreatment(QueueAdd(s1, "Treatment", p), dsNext)
    IN  ProcessExamination(s2, dsSelf)

(* Mutant of EndTrauma: the unit is given back twice.                       *)
EndTrauma_FreeTwice(st, patient, dsNext, dsSelf) ==
    LET s1 == Free(Free(st, "Trauma"), "Trauma")
        p  == [patient EXCEPT !.TraumaTime = st.Clock]
        s2 == ProcessTreatment(QueueAdd(s1, "Treatment", p), dsNext)
    IN  ProcessTrauma(s2, dsSelf)

EndTrauma(st, patient, dsNext, dsSelf) ==
    LET s1 == Free(st, "Trauma")
        p  == [patient EXCEPT !.TraumaTime = st.Clock]
        s2 == ProcessTreatment(QueueAdd(s1, "Treatment", p), dsNext)
    IN  ProcessTrauma(s2, dsSelf)

(* Mutant of EndTreatment: the discharge is not counted.                    *)
EndTreatment_NoCount(st, patient, dsSelf) ==
    LET s1 == Free(st, "Treatment")
        s2 == [s1 EXCEPT !.discharged = @ \cup {patient.id}]
    IN  ProcessTreatment(s2, dsSelf)

(* Mutant of EndTreatment: the Treatment queue is not looked at again       *)
(* after the unit is given back.                                            *)
EndTreatment_NoRedrain(st, patient, dsSelf) ==
    LET s1 == Free(st, "Treatment")
        p  == [patient EXCEPT !.TreatmentTime = st.Clock]
    IN  [s1 EXCEPT !.PatientsCompleted["main"] = @ + 1,
                   !.discharged = @ \cup {p.id}]

EndTreatment(st, patient, dsSelf) ==
    LET s1 == Free(st, "Treatment")
        p  == [patient EXCEPT !.TreatmentTime = st.Clock]
        s2 == [s1 EXCEPT !.PatientsCompleted["main"] = @ + 1,
                         !.discharged = @ \cup {p.id}]
    IN  ProcessTreatment(s2, dsSelf)

-----------------------------------------------------------------------------
(* The arrival handlers.  u: the trauma-decision draw; ds: the draws of     *)
(* the Sign-in/Triage drain; ia: the interarrival draw.                     *)

(* Mutant of Arrival: a draw equal to the trauma fraction makes a trauma     *)
(* patient too.                                                             *)
Arrival_TraumaAtBoundary(st, u, ds, ia) ==
    LET id == st.npat + 1
        s1 == [st EXCEPT !.npat = id,
                         !.visits = Append(@,
                             [IsTrauma |-> u <= st.TraumaPercentage["main"],
                              path |-> <<>>, CreateTime |-> st.Clock]),
                         !.TotalArrivals["main"] = @ + 1,
                         !.drawn = Append(@, [stream |-> "TraumaDecisionStream",
                                              value |-> u])]
        s2 == IF u <= st.TraumaPercentage["main"]
                  THEN [s1 EXCEPT !.TraumaPatients["main"] = @ + 1]
                  ELSE [s1 EXCEPT !.NonTraumaPatients["main"] = @ + 1]
        patient == [Patient(id, st.Clock) EXCEPT
                        !.IsTrauma = u <= st.TraumaPercentage["main"]]
        s3 == ProcessSignInTriage(QueueAdd(s2, "SignInTriage", patient), ds)
    IN  IF s3.Clock < SimulationTime
            THEN Schedule(Draw(s3, "ArrivalStream", ia), "Arrival", ia)
            ELSE s3

(* Mutant of Arrival: the next Arrival is scheduled whatever the Clock.      *)
Arrival_ScheduleAlways(st, u, ds, ia) ==
    LET id == st.npat + 1
        s1 == [st EXCEPT !.npat = id,
                         !.visits = Append(@,
                             [IsTrauma |-> u < st.TraumaPercentage["main"],
                              path |-> <<>>, CreateTime |-> st.Clock]),
                         !.TotalArrivals["main"] = @ + 1,
                         !.drawn = Append(@, [stream |-> "TraumaDecisionStream",
                                              value |-> u])]
        s2 == IF u < st.TraumaPercentage["main"]
                  THEN [s1 EXCEPT !.TraumaPatients["main"] = @ + 1]
                  ELSE [s1 EXCEPT !.NonTraumaPatients["main"] = @ + 1]
        patient == [Patient(id, st.Clock) EXCEPT
                        !.IsTrauma = u < st.TraumaPercentage["main"]]
        s3 == ProcessSignInTriage(QueueAdd(s2, "SignInTriage", patient), ds)
    IN  Schedule(Draw(s3, "ArrivalStream", ia), "Arrival", ia)

(* main.Arrival *)
(* Mutant of Arrival: the next arrival is scheduled before the patient is  *)
(* enqueued and the station drained.                                        *)
Arrival_ScheduleBeforeDrain(st, u, ds, ia) ==
    LET id == st.npat + 1
        s1 == [st EXCEPT !.npat = id,
                         !.visits = Append(@,
                             [IsTrauma |-> u < st.TraumaPercentage["main"],
                              path |-> <<>>, CreateTime |-> st.Clock]),
                         !.TotalArrivals["main"] = @ + 1,
                         !.drawn = Append(@, [stream |-> "TraumaDecisionStream",
                                              value |-> u])]
        s2 == IF u < st.TraumaPercentage["main"]
                  THEN [s1 EXCEPT !.TraumaPatients["main"] = @ + 1]
                  ELSE [s1 EXCEPT !.NonTraumaPatients["main"] = @ + 1]
        patient == [Patient(id, st.Clock) EXCEPT
                        !.IsTrauma = u < st.TraumaPercentage["main"]]
        s3 == IF s2.Clock < SimulationTime
                  THEN Schedule(Draw(s2, "ArrivalStream", ia), "Arrival", ia)
                  ELSE s2
    IN  ProcessSignInTriage(QueueAdd(s3, "SignInTriage", patient), ds)

Arrival(st, u, ds, ia) ==
    LET id == st.npat + 1
        s1 == [st EXCEPT !.npat = id,
                         !.visits = Append(@,
                             [IsTrauma |-> u < st.TraumaPercentage["main"],
                              path |-> <<>>, CreateTime |-> st.Clock]),
                         !.TotalArrivals["main"] = @ + 1,
                         !.drawn = Append(@, [stream |-> "TraumaDecisionStream",
                                              value |-> u])]
        s2 == IF u < st.TraumaPercentage["main"]
                  THEN [s1 EXCEPT !.TraumaPatients["main"] = @ + 1]
                  ELSE [s1 EXCEPT !.NonTraumaPatients["main"] = @ + 1]
        patient == [Patient(id, st.Clock) EXCEPT
                        !.IsTrauma = u < st.TraumaPercentage["main"]]
        s3 == ProcessSignInTriage(QueueAdd(s2, "SignInTriage", patient), ds)
    IN  IF s3.Clock < SimulationTime
            THEN Schedule(Draw(s3, "ArrivalStream", ia), "Arrival", ia)
            ELSE s3

(* Mutant of HourIndex: past the table the index starts again at 0.         *)
HourIndex_WrapsAround(current_time) ==
    (current_time \div (60 * TicksPerMinute)) % SimulationHours

(* hour_index = int(current_time / 60); if hour_index >= 18: hour_index = 17 *)
HourIndex(current_time) ==
    LET hour_index == current_time \div (60 * TicksPerMinute)
    IN  IF hour_index >= 18 THEN 17 ELSE hour_index

(* Mutant of GetCurrentArrivalRate: the rate of the first hour at any time. *)
GetCurrentArrivalRate_FirstHour(st, current_time) ==
    st.ArrivalRatesByHour[1]

(* main_nonstationary.GetCurrentArrivalRate: the rate of the hour of        *)
(* current_time, the last hour from closing on; kept in patients per hour:  *)
(* the value v stands for the v / 60 patients per minute the code returns   *)
(* (the division by 60.0 changes the unit, not whether the rate is 0).      *)
GetCurrentArrivalRate(st, current_time) ==
    st.ArrivalRatesByHour[HourIndex(current_time) + 1]

(* Mutant of ArrivalNonStationary: a non-trauma arrival is not counted in   *)
(* NonTraumaPatients.                                                       *)
ArrivalNonStationary_NoNonTraumaCount(st, u, ds, ia) ==
    LET id == st.npat + 1
        s1 == [st EXCEPT !.npat = id,
                         !.visits = Append(@,
                             [IsTrauma |-> u < st.TraumaPercentage["ns"],
                              path |-> <<>>, CreateTime |-> st.Clock]),
                         !.TotalArrivals["ns"] = @ + 1,
                         !.drawn = Append(@, [stream |-> "TraumaDecisionStream",
                                              value |-> u])]
        s2 == IF u < st.TraumaPercentage["ns"]
                  THEN [s1 EXCEPT !.TraumaPatients["ns"] = @ + 1]
                  ELSE s1
        patient == [Patient(id, st.Clock) EXCEPT
                        !.IsTrauma = u < st.TraumaPercentage["ns"]]
        s3 == ProcessSignInTriage(QueueAdd(s2, "SignInTriage", patient), ds)
        current_rate == GetCurrentArrivalRate(s3, s3.Clock)
        interarrival_time == IF current_rate > 0 THEN ia ELSE FallbackDelay
        s4 == IF current_rate > 0 THEN Draw(s3, "ArrivalStream", ia) ELSE s3
    IN  IF s3.Clock < SimulationTime
            THEN IF s4.Clock + interarrival_time < SimulationTime
                     THEN Schedule(s4, "ArrivalNS", interarrival_time)
                     ELSE s4
            ELSE s3

(* Mutant of ArrivalNonStationary: a next arrival that falls exactly on     *)
(* closing time is scheduled.                                               *)
ArrivalNonStationary_ClosingInclusive(st, u, ds, ia) ==
    LET id == st.npat + 1
        s1 == [st EXCEPT !.npat = id,
                         !.visits = Append(@,
                             [IsTrauma |-> u < st.TraumaPercentage["ns"],
                              path |-> <<>>, CreateTime |-> st.Clock]),
                         !.TotalArrivals["ns"] = @ + 1,
                         !.drawn = Append(@, [stream |-> "TraumaDecisionStream",
                                              value |-> u])]
        s2 == IF u < st.TraumaPercentage["ns"]
                  THEN [s1 EXCEPT !.TraumaPatients["ns"] = @ + 1]
                  ELSE [s1 EXCEPT !.NonTraumaPatients["ns"] = @ + 1]
        patient == [Patient(id, st.Clock) EXCEPT
                        !.IsTrauma = u < st.TraumaPercentage["ns"]]
        s3 == ProcessSignInTriage(QueueAdd(s2, "SignInTriage", patient), ds)
        current_rate == GetCurrentArrivalRate(s3, s3.Clock)
        interarrival_time == IF current_rate > 0 THEN ia ELSE FallbackDelay
        s4 == IF current_rate > 0 THEN Draw(s3, "ArrivalStream", ia) ELSE s3
    IN  IF s3.Clock < SimulationTime
            THEN IF s4.Clock + interarrival_time <= SimulationTime
                     THEN Schedule(s4, "ArrivalNS", interarrival_time)
                     ELSE s4
            ELSE s3

(* main_nonstationary.ArrivalNonStationary *)
ArrivalNonStationary(st, u, ds, ia) ==
    LET id == st.npat + 1
        s1 == [st EXCEPT !.npat = id,
                         !.visits = Append(@,
                             [IsTrauma |-> u < st.TraumaPercentage["ns"],
                              path |-> <<>>, CreateTime |-> st.Clock]),
                         !.TotalArrivals["ns"] = @ + 1,
                         !.drawn = Append(@, [stream |-> "TraumaDecisionStream",
                                              value |-> u])]
        s2 == IF u < st.TraumaPercentage["ns"]
                  THEN [s1 EXCEPT !.TraumaPatients["ns"] = @ + 1]
                  ELSE [s1 EXCEPT !.NonTraumaPatients["ns"] = @ + 1]
        patient == [Patient(id, st.Clock) EXCEPT
                        !.IsTrauma = u < st.TraumaPercentage["ns"]]
        s3 == ProcessSignInTriage(QueueAdd(s2, "SignInTriage", patient), ds)
        current_rate == GetCurrentArrivalRate(s3, s3.Clock)
        interarrival_time == IF current_rate > 0 THEN ia ELSE FallbackDelay
        s4 == IF current_rate > 0 THEN Draw(s3, "ArrivalStream", ia) ELSE s3
    IN  IF s3.Clock < SimulationTime
            THEN IF s4.Clock + interarrival_time < SimulationTime
                     THEN Schedule(s4, "ArrivalNS", interarrival_time)
                     ELSE s4
            ELSE s3

-----------------------------------------------------------------------------
(* One replication: its set-up, its event loop, its return.                 *)

(* The histories start anew with each replication.                          *)
ClearHistory(st) ==
    [st EXCEPT !.npat = 0, !.visits = <<>>, !.discharged = {},
               !.scheduled = <<>>, !.waits = <<>>, !.drawn = <<>>,
               !.tickets = [s \in Stations |-> {}],
               !.turns = [s \in Stations |-> <<>>]]

(* Mutant of RunSimulation: the Treatment units are read from the Trauma    *)
(* entry of staff_levels.                                                   *)
RunSimulation_TreatmentUnitsFromTrauma(st, trauma_pct, staff, first_arrival) ==
    LET s1 == SimFunctionsInit(st)
        s2 == [s1 EXCEPT !.TotalArrivals["main"] = 0,
                         !.TraumaPatients["main"] = 0,
                         !.NonTraumaPatients["main"] = 0,
                         !.PatientsCompleted["main"] = 0,
                         !.TraumaPercentage["main"] = trauma_pct]
        s3 == SetUnits(s2, "SignInTriage", staff["SignInTriage"])
        s4 == SetUnits(s3, "Registration", staff["Registration"])
        s5 == SetUnits(s4, "Examination", staff["Examination"])
        s6 == SetUnits(s5, "Trauma", staff["Trauma"])
        s7 == SetUnits(s6, "Treatment", staff["Trauma"])
    IN  Schedule(Draw(s7, "ArrivalStream", first_arrival), "Arrival",
                 first_arrival)

(* main.RunSimulation up to the event loop *)
RunSimulation(st, trauma_pct, staff, first_arrival) ==
    LET s1 == SimFunctionsInit(st)
        s2 == [s1 EXCEPT !.TotalArrivals["main"] = 0,
                         !.TraumaPatients["main"] = 0,
                         !.NonTraumaPatients["main"] = 0,
                         !.PatientsCompleted["main"] = 0,
                         !.TraumaPercentage["main"] = trauma_pct]
        s3 == SetUnits(s2, "SignInTriage", staff["SignInTriage"])
        s4 == SetUnits(s3, "Registration", staff["Registration"])
        s5 == SetUnits(s4, "Examination", staff["Examination"])
        s6 == SetUnits(s5, "Trauma", staff["Trauma"])
        s7 == SetUnits(s6, "Treatment", staff["Treatment"])
    IN  Schedule(Draw(s7, "ArrivalStream", first_arrival), "Arrival",
                 first_arrival)

(* main_nonstationary.RunSimulationNonStationary up to the event loop;      *)
(* rates is what LoadArrivalData returned.                                  *)
RunSimulationNonStationary(st, trauma_pct, staff, rates, first_arrival) ==
    LET s1 == SimFunctionsInit(st)
        s2 == [s1 EXCEPT !.TotalArrivals["ns"] = 0,
                         !.TraumaPatients["ns"] = 0,
                         !.NonTraumaPatients["ns"] = 0,
                         !.PatientsCompleted["ns"] = 0,
                         !.TraumaPercentage["ns"] = trauma_pct,
                         !.ArrivalRatesByHour = rates]
        s3 == SetUnits(s2, "SignInTriage", staff["SignInTriage"])
        s4 == SetUnits(s3, "Registration", staff["Registration"])
        s5 == SetUnits(s4, "Examination", staff["Examination"])
        s6 == SetUnits(s5, "Trauma", staff["Trauma"])
        s7 == SetUnits(s6, "Treatment", staff["Treatment"])
        initial_rate == s7.ArrivalRatesByHour[1]
    IN  IF initial_rate > 0
            THEN Schedule(Draw(s7, "ArrivalStream", first_arrival), "ArrivalNS",
                          first_arrival)
            ELSE s7

(* A division the return statement performs, kept as its two operands: the *)
(* dividend is named, "0" for the literal 0 and a station for the Mean() of *)
(* its resource.                                                            *)
Quotient(dividend, divisor) ==
    [dividend |-> dividend, divisor |-> divisor]

(* 'XUtil': XResource.Mean() / staff_levels['X'] if staff_levels['X'] > 0   *)
(*          else 0                                                          *)
Util(s) ==
    IF staff_levels[s] > 0 THEN Quotient(s, staff_levels[s])
                           ELSE Quotient("0", 1)

(* Mutant of ReturnedDict: the utilizations are divided without the test of *)
(* the capacity.                                                            *)
ReturnedDict_NoZeroGuard(m) ==
    [TotalArrivals |-> TotalArrivals[m], TraumaPatients |-> TraumaPatients[m],
     PatientsCompleted |-> PatientsCompleted[m],
     Util |-> [s \in Stations |-> Quotient(s, staff_levels[s])]]

(* The dict a replication returns, read from the globals of module m.       *)
ReturnedDict(m) ==
    [TotalArrivals |-> TotalArrivals[m], TraumaPatients |-> TraumaPatients[m],
     PatientsCompleted |-> PatientsCompleted[m],
     Util |-> [s \in Stations |-> Util(s)]]

NoResult ==
    [TotalArrivals |-> -1, TraumaPatients |-> -1, PatientsCompleted |-> -1,
     Util |-> [s \in Stations |-> Quotient("0", 1)]]

(* Mutant of Popped: the event behind the removed one is lost with it.      *)
Popped_DropsTwo(st) ==
    [st EXCEPT !.Calendar = IF Len(@) >= 2 THEN Tail(Tail(@)) ELSE Tail(@),
               !.Clock = Head(st.Calendar).EventTime,
               !.scheduled = <<>>, !.waits = <<>>, !.drawn = <<>>]

(* next_event = Calendar.Remove(); SimClasses.Clock = next_event.EventTime  *)
Popped(st) ==
    [st EXCEPT !.Calendar = Tail(@), !.Clock = Head(st.Calendar).EventTime,
               !.scheduled = <<>>, !.waits = <<>>, !.drawn = <<>>]

DrawSeqs(n, D) == [1..n -> D]

Waiting(s) == Len(Queue[s])

Looping(kind) ==
    /\ phase = "loop"
    /\ ~fault
    /\ Calendar # <<>>
    /\ Head(Calendar).EventType = kind

Dispatched ==
    /\ fresh' = FALSE
    /\ UNCHANGED <<phase, mode, reps, staff_levels, result, cap, interarrivals,
                   ci_results,
                   verdict, called, returned>>

CallRunSimulation(scenarios) ==
    /\ phase = "idle"
    /\ \E sc \in scenarios, first_arrival \in ArrivalDraws :
            /\ Becomes(RunSimulation(ClearHistory(State), sc.trauma_pct, sc.staff,
                                     first_arrival))
            /\ staff_levels' = sc.staff
            /\ cap' = sc.patients
            /\ interarrivals' = sc.interarrivals
    /\ phase' = "loop"
    /\ mode' = "S"
    /\ reps' = reps + 1
    /\ fresh' = TRUE
    /\ result' = NoResult
    /\ UNCHANGED <<ci_results, verdict, called, returned>>

BeginRunSimulation ==
    /\ reps < MaxReps
    /\ CallRunSimulation(Scenarios)

CallRunSimulationNonStationary(scenarios, patients) ==
    /\ phase = "idle"
    /\ \E sc \in scenarios, first_arrival \in FirstArrivalDrawsNS :
            /\ Becomes(RunSimulationNonStationary(ClearHistory(State),
                            sc.trauma_pct, sc.staff, sc.rates, first_arrival))
            /\ staff_levels' = sc.staff
            /\ cap' = patients
            /\ interarrivals' = sc.interarrivals
    /\ phase' = "loop"
    /\ mode' = "NS"
    /\ reps' = reps + 1
    /\ fresh' = TRUE
    /\ result' = NoResult
    /\ UNCHANGED <<ci_results, verdict, called, returned>>

BeginRunSimulationNonStationary ==
    /\ reps < MaxReps
    /\ CallRunSimulationNonStationary(ScenariosNonStationary, MaxPatients)

DispatchArrival ==
    /\ mode = "S"
    /\ Looping("Arrival")
    /\ npat < cap
    /\ \E st \in {Popped(State)}, u \in UDraws, ia \in interarrivals,
          ds \in DrawSeqs(Waiting("SignInTriage") + 1, TriageDraws) :
            Becomes(Arrival(st, u, ds, ia))
    /\ Dispatched

DispatchArrivalNS ==
    /\ mode = "NS"
    /\ Looping("ArrivalNS")
    /\ npat < cap
    /\ \E st \in {Popped(State)}, u \in UDraws, ia \in interarrivals,
          ds \in DrawSeqs(Waiting("SignInTriage") + 1, TriageDraws) :
            Becomes(ArrivalNonStationary(st, u, ds, ia))
    /\ Dispatched

DispatchEndSignInTriage ==
    /\ Looping("EndSignInTriage")
    /\ LET patient == Head(Calendar).WhichObject
           next == IF patient.IsTrauma THEN "Trauma" ELSE "Registration"
       IN  \E st \in {Popped(State)},
              dsNext \in DrawSeqs(Waiting(next) + 1,
                               IF patient.IsTrauma THEN TraumaDraws
                                                   ELSE RegistrationDraws),
              dsSelf \in DrawSeqs(Waiting("SignInTriage"), TriageDraws) :
                Becomes(EndSignInTriage(st, patient, dsNext, dsSelf))
    /\ Dispatched

DispatchEndRegistration ==
    /\ Looping("EndRegistration")
    /\ \E st \in {Popped(State)},
          dsNext \in DrawSeqs(Waiting("Examination") + 1, ExamDraws),
          dsSelf \in DrawSeqs(Waiting("Registration"), RegistrationDraws) :
            Becomes(EndRegistration(st, Head(Calendar).WhichObject,
                                    dsNext, dsSelf))
    /\ Dispatched

DispatchEndExamination ==
    /\ Looping("EndExamination")
    /\ \E st \in {Popped(State)}, u \in DischargeDraws,
          dsNext \in DrawSeqs(Waiting("Treatment") + 1, TreatmentDraws),
          dsSelf \in DrawSeqs(Waiting("Examination"), ExamDraws) :
            Becomes(EndExamination(st, Head(Calendar).WhichObject, u,
                                   dsNext, dsSelf))
    /\ Dispatched

DispatchEndTrauma ==
    /\ Looping("EndTrauma")
    /\ \E st \in {Popped(State)},
          dsNext \in DrawSeqs(Waiting("Treatment") + 1, TreatmentDraws),
          dsSelf \in DrawSeqs(Waiting("Trauma"), TraumaDraws) :
            Becomes(EndTrauma(st, Head(Calendar).WhichObject,
                              dsNext, dsSelf))
    /\ Dispatched

DispatchEndTreatment ==
    /\ Looping("EndTreatment")
    /\ \E st \in {Popped(State)},
          dsSelf \in DrawSeqs(Waiting("Treatment"), TreatmentDraws) :
            Becomes(EndTreatment(st, Head(Calendar).WhichObject, dsSelf))
    /\ Dispatched

(* while Calendar.N() > 0 ends; return {...} *)
ReturnRunSimulation ==
    /\ phase = "loop"
    /\ mode = "S"
    /\ Calendar = <<>>
    /\ result' = ReturnedDict("main")
    /\ phase' = "idle"
    /\ fresh' = FALSE
    /\ UNCHANGED <<mode, reps, staff_levels, Clock, Calendar, Busy, Units, Queue,
                   TotalArrivals, TraumaPatients, NonTraumaPatients,
                   PatientsCompleted, TraumaPercentage, ArrivalRatesByHour, fault,
                   npat, visits, discharged, scheduled, waits, drawn, tickets,
                   turns, cap,
                   interarrivals, ci_results, verdict, called, returned>>

ReturnRunSimulationNonStationary ==
    /\ phase = "loop"
    /\ mode = "NS"
    /\ Calendar = <<>>
    /\ result' = ReturnedDict("ns")
    /\ phase' = "idle"
    /\ fresh' = FALSE
    /\ UNCHANGED <<mode, reps, staff_levels, Clock, Calendar, Busy, Units, Queue,
                   TotalArrivals, TraumaPatients, NonTraumaPatients,
                   PatientsCompleted, TraumaPercentage, ArrivalRatesByHour, fault,
                   npat, visits, discharged, scheduled, waits, drawn, tickets,
                   turns, cap,
                   interarrivals, ci_results, verdict, called, returned>>

-----------------------------------------------------------------------------
(* The service-level checks.  ci_results[key] is the tuple (mean,           *)
(* half_width, lower, upper) of ConfidenceInterval, in ticks; Python's      *)
(* index i is index i + 1 here.                                             *)

WaitKeys ==
    {"SignInTriageWait", "RegistrationWait", "ExaminationWait", "TraumaWait",
     "TreatmentWait"}

(* The threshold of each wait metric: 2, 5 and 20 minutes.                  *)
Threshold ==
    [SignInTriageWait |-> 2 * TicksPerMinute, TraumaWait |-> 5 * TicksPerMinute,
     RegistrationWait |-> 20 * TicksPerMinute,
     ExaminationWait |-> 20 * TicksPerMinute,
     TreatmentWait |-> 20 * TicksPerMinute]

(* main.RunScenario, "Check service level requirements": PASS per line      *)
RunScenarioChecks(ci) ==
    [SignInTriageWait |-> ci["SignInTriageWait"][3] < 2 * TicksPerMinute,
     TraumaWait       |-> ci["TraumaWait"][3] < 5 * TicksPerMinute,
     RegistrationWait |-> ci["RegistrationWait"][1] <= 20 * TicksPerMinute,
     ExaminationWait  |-> ci["ExaminationWait"][1] <= 20 * TicksPerMinute,
     TreatmentWait    |-> ci["TreatmentWait"][1] <= 20 * TicksPerMinute]

(* main_nonstationary.RunScenarioNonStationary, the same five lines         *)
RunScenarioNonStationaryChecks(ci) ==
    LET tri_hi == ci["SignInTriageWait"][4]
        tra_hi == ci["TraumaWait"][4]
        reg_hi == ci["RegistrationWait"][4]
        ex_hi  == ci["ExaminationWait"][4]
        trt_hi == ci["TreatmentWait"][4]
    IN  [SignInTriageWait |-> tri_hi < 2 * TicksPerMinute,
         TraumaWait       |-> tra_hi < 5 * TicksPerMinute,
         RegistrationWait |-> reg_hi <= 20 * TicksPerMinute,
         ExaminationWait  |-> ex_hi <= 20 * TicksPerMinute,
         TreatmentWait    |-> trt_hi <= 20 * TicksPerMinute]

(* staffing_optimizer.CheckServiceLevels *)
CheckServiceLevels(results) ==
    LET tri_hi == results["SignInTriageWait"][4]
        tra_hi == results["TraumaWait"][4]
        reg_hi == results["RegistrationWait"][4]
        ex_hi  == results["ExaminationWait"][4]
        trt_hi == results["TreatmentWait"][4]
    IN  IF tri_hi >= 2 * TicksPerMinute THEN FALSE
        ELSE IF tra_hi >= 5 * TicksPerMinute THEN FALSE
        ELSE IF reg_hi > 20 * TicksPerMinute THEN FALSE
        ELSE IF ex_hi > 20 * TicksPerMinute THEN FALSE
        ELSE IF trt_hi > 20 * TicksPerMinute THEN FALSE
        ELSE TRUE

(* The tuple ConfidenceInterval returns for a mean and a half-width.        *)
CITuple(mean, half_width) ==
    <<mean, half_width, mean - half_width, mean + half_width>>

(* Inputs of the checks: per metric an interval wholly below the            *)
(* threshold L, one that straddles it with its mean below, one with its     *)
(* upper bound exactly L, and one wholly above.                             *)
CIOptions(L) ==
    {CITuple(L - 10, 5), CITuple(L - 5, 10), CITuple(L, 0), CITuple(L + 10, 5)}

CIInputs ==
    {ci \in [WaitKeys -> UNION {CIOptions(Threshold[k]) : k \in WaitKeys}] :
        \A k \in WaitKeys : ci[k] \in CIOptions(Threshold[k])}

AllFail == [k \in WaitKeys |-> FALSE]

NoVerdict == [ran |-> {}, main |-> AllFail, ns |-> AllFail, optimizer |-> FALSE]

PrintRunScenarioChecks ==
    /\ "main" \notin verdict.ran
    /\ verdict' = [verdict EXCEPT !.ran = @ \cup {"main"},
                                  !.main = RunScenarioChecks(ci_results)]
    /\ UNCHANGED <<ci_results, simvars, called, returned>>

PrintRunScenarioNonStationaryChecks ==
    /\ "ns" \notin verdict.ran
    /\ verdict' = [verdict EXCEPT !.ran = @ \cup {"ns"},
                                  !.ns = RunScenarioNonStationaryChecks(ci_results)]
    /\ UNCHANGED <<ci_results, simvars, called, returned>>

CallCheckServiceLevels ==
    /\ "optimizer" \notin verdict.ran
    /\ verdict' = [verdict EXCEPT !.ran = @ \cup {"optimizer"},
                                  !.optimizer = CheckServiceLevels(ci_results)]
    /\ UNCHANGED <<ci_results, simvars, called, returned>>

-----------------------------------------------------------------------------
(* Helper functions called outside the event loop.                          *)

NoCall == [f |-> "none", args |-> <<>>]

RECURSIVE SumSeq(_)
SumSeq(seq) ==
    IF seq = <<>> THEN 0 ELSE Head(seq) + SumSeq(Tail(seq))

(* math.sqrt on whole numbers: the largest r between lo and hi with         *)
(* r * r <= x.                                                              *)
RECURSIVE SqrtBetween(_, _, _)
SqrtBetween(x, lo, hi) ==
    IF lo = hi
        THEN lo
        ELSE LET mid == (lo + hi + 1) \div 2
             IN  IF mid * mid <= x THEN SqrtBetween(x, mid, hi)
                                   ELSE SqrtBetween(x, lo, mid - 1)

Sqrt(x) == SqrtBetween(x, 0, 46340)

(* t_values of ConfidenceInterval for n = 2..30, in thousandths.            *)
t_values ==
    <<12706, 4303, 3182, 2776, 2571, 2447, 2365, 2306, 2262, 2228, 2201, 2179,
      2160, 2145, 2131, 2120, 2110, 2101, 2093, 2086, 2080, 2074, 2069, 2064,
      2060, 2056, 2052, 2048, 2045>>

(* The t the code picks, in thousandths; confidence is in percent.          *)
TValue(n, confidence) ==
    IF confidence = 95
        THEN IF n <= 30
                 THEN IF n \in 2..30 THEN t_values[n - 1] ELSE 2045
                 ELSE 1960
        ELSE 1960

(* main.ConfidenceInterval(data, confidence): (mean, half_width, lower,     *)
(* upper).  The observations are whole numbers whose mean is whole; the     *)
(* standard deviation and the half-width are rounded down to a whole        *)
(* number.                                                                  *)
ConfidenceInterval(data, confidence) ==
    LET n == Len(data)
        mean == SumSeq(data) \div n
        variance == SumSeq([i \in 1..n |-> (data[i] - mean) * (data[i] - mean)])
                        \div (n - 1)
        std_dev == Sqrt(variance)
        half_width == (TValue(n, confidence) * std_dev) \div Sqrt(n * 1000000)
    IN  IF n < 2
            THEN <<IF n = 1 THEN data[1] ELSE 0, 0, 0, 0>>
            ELSE <<mean, half_width, mean - half_width, mean + half_width>>

(* The per-replication values ConfidenceInterval is called on: waits in     *)
(* ticks, from no replication to MaxObs of them.                            *)
Observations == {0, 60 * TicksPerMinute, 120 * TicksPerMinute}

ObservationLists == UNION {[1..n -> Observations] : n \in 0..MaxObs}

CallConfidenceInterval ==
    /\ \E data \in ObservationLists, confidence \in {90, 95} :
            /\ called' = [f |-> "ConfidenceInterval",
                          args |-> <<data, confidence>>]
            /\ returned' = ConfidenceInterval(data, confidence)
    /\ UNCHANGED <<simvars, ci_results, verdict>>

(* A cell of the CSV file: text that int() accepts, other text, or the      *)
(* empty string.                                                            *)
IntCell(v) == [kind |-> "int", value |-> v]

TextCell == [kind |-> "text", value |-> 0]

EmptyCell == [kind |-> "empty", value |-> 0]

(* if row and row[0] *)
HasData(row) ==
    Len(row) > 0 /\ row[1].kind # "empty"

(* try: count = int(row[hour]) ... except (ValueError, IndexError): pass    *)
CountOf(row, hour) ==
    IF hour <= Len(row) /\ row[hour].kind = "int" THEN row[hour].value ELSE 0

(* main_nonstationary.LoadArrivalData: rows are the rows of the file after  *)
(* the header.  The counts make every average a whole number.               *)
LoadArrivalData(rows) ==
    LET days == SelectSeq(rows, HasData)
        day_count == Len(days)
        hourly_totals == [hour \in 1..SimulationHours |->
            SumSeq([i \in 1..day_count |-> CountOf(days[i], hour)])]
    IN  IF day_count > 0
            THEN [hour \in 1..SimulationHours |-> hourly_totals[hour] \div day_count]
            ELSE [hour \in 1..SimulationHours |-> 10]

(* Rows of a file: a whole day of counts, a row that stops after its first  *)
(* hours, a row with a cell that is no number, a blank line, a row whose    *)
(* first cell is empty.                                                     *)
WholeRow(v) == [hour \in 1..SimulationHours |-> IntCell(v)]

ShortRow(v) == [hour \in 1..2 |-> IntCell(v)]

MalformedRow(v) ==
    [hour \in 1..SimulationHours |-> IF hour = 2 THEN TextCell ELSE IntCell(v)]

BlankRow == <<>>

NoFirstCellRow(v) ==
    [hour \in 1..SimulationHours |-> IF hour = 1 THEN EmptyCell ELSE IntCell(v)]

Rows ==
    {WholeRow(12), WholeRow(36), ShortRow(12), MalformedRow(12), BlankRow,
     NoFirstCellRow(12)}

Files == UNION {[1..n -> Rows] : n \in 0..MaxRows}

CallLoadArrivalData ==
    /\ \E rows \in Files :
            /\ called' = [f |-> "LoadArrivalData", args |-> <<rows>>]
            /\ returned' = LoadArrivalData(rows)
    /\ UNCHANGED <<simvars, ci_results, verdict>>

(* A table with a different rate in every hour.                             *)
RisingRates == [h \in 1..SimulationHours |-> 10 * h]

(* Times before, at and after each full hour, up to two hours past closing. *)
Times ==
    {h * 60 * TicksPerMinute + d :
        h \in 0..(SimulationHours + 2), d \in {0, 1, 60 * TicksPerMinute - 1}}

(* The hour index the call used and the rate it returned.                   *)
CallGetCurrentArrivalRate ==
    /\ \E current_time \in Times, rates \in {RisingRates, ConstantRates(10)} :
            /\ called' = [f |-> "GetCurrentArrivalRate",
                          args |-> <<current_time, rates>>]
            /\ returned' =
                    [hour_index |-> HourIndex(current_time),
                     rate |-> GetCurrentArrivalRate(
                                [ArrivalRatesByHour |-> rates], current_time)]
    /\ UNCHANGED <<simvars, ci_results, verdict>>


InitSim ==
    /\ phase = "idle"
    /\ mode = "S"
    /\ reps = 0
    /\ fresh = FALSE
    /\ staff_levels = [s \in Stations |-> 0]
    /\ result = NoResult
    /\ Clock = 0
    /\ Calendar = <<>>
    /\ Busy = [s \in Stations |-> 0]
    /\ Units = [s \in Stations |-> 0]
    /\ Queue = [s \in Stations |-> <<>>]
    /\ TotalArrivals = [m \in Modules |-> 0]
    /\ TraumaPatients = [m \in Modules |-> 0]
    /\ NonTraumaPatients = [m \in Modules |-> 0]
    /\ PatientsCompleted = [m \in Modules |-> 0]
    /\ TraumaPercentage = [m \in Modules |-> 0]
    /\ ArrivalRatesByHour = <<>>
    /\ fault = FALSE
    /\ npat = 0
    /\ visits = <<>>
    /\ discharged = {}
    /\ scheduled = <<>>
    /\ waits = <<>>
    /\ drawn = <<>>
    /\ tickets = [s \in Stations |-> {}]
    /\ turns = [s \in Stations |-> <<>>]
    /\ cap = 0
    /\ interarrivals = {}

Init ==
    /\ InitSim
    /\ ci_results = [k \in WaitKeys |-> CITuple(0, 0)]
    /\ verdict = NoVerdict
    /\ called = NoCall
    /\ returned = <<>>

Next ==
    \/ BeginRunSimulation
    \/ BeginRunSimulationNonStationary
    \/ DispatchArrival
    \/ DispatchArrivalNS
    \/ DispatchEndSignInTriage
    \/ DispatchEndRegistration
    \/ DispatchEndExamination
    \/ DispatchEndTrauma
    \/ DispatchEndTreatment
    \/ ReturnRunSimulation
    \/ ReturnRunSimulationNonStationary

Spec == Init /\ [][Next]_vars

(* The event loop keeps running: while a step of it is possible, one is     *)
(* taken.                                                                   *)
LoopStep ==
    \/ DispatchArrival
    \/ DispatchArrivalNS
    \/ DispatchEndSignInTriage
    \/ DispatchEndRegistration
    \/ DispatchEndExamination
    \/ DispatchEndTrauma
    \/ DispatchEndTreatment
    \/ ReturnRunSimulation
    \/ ReturnRunSimulationNonStationary

(* One replication of each kind, followed to its end: stations without     *)
(* staff, a table with patients in every hour, in the first hour only, in   *)
(* no hour.                                                                 *)
ScenariosLive ==
    {Scenario(10, Unstaffed("Treatment"), MaxPatients, ArrivalDraws),
     Scenario(10, Unstaffed("SignInTriage"), MaxPatients, ArrivalDraws),
     Scenario(10, Staff(1), MaxPatients, ArrivalDraws)}

ScenariosNonStationaryLive ==
    {ScenarioNonStationary(10, Staff(1), ConstantRates(10), ArrivalDraws),
     ScenarioNonStationary(0, Staff(1), FirstHourRates(10), ArrivalDraws),
     ScenarioNonStationary(10, Staff(1), ConstantRates(0), ArrivalDraws)}

BeginRunSimulationLive ==
    /\ reps = 0
    /\ CallRunSimulation(ScenariosLive)

BeginRunSimulationNonStationaryLive ==
    /\ reps = 0
    /\ CallRunSimulationNonStationary(ScenariosNonStationaryLive, MaxPatients)

NextLive ==
    \/ BeginRunSimulationLive
    \/ BeginRunSimulationNonStationaryLive
    \/ LoopStep

SpecLive == Init /\ [][NextLive]_vars /\ WF_vars(LoopStep)

(* One non-stationary replication on a table with patients in the first     *)
(* hour only, followed to its end: every patient a trauma case; no staff at *)
(* Registration; and one whose arrival draws all reach closing, where the   *)
(* patients take every path.                                                *)
ScenariosNonStationaryChain ==
    {ScenarioNonStationary(100, Staff(1), FirstHourRates(10), ChainDraws),
     ScenarioNonStationary(0, Unstaffed("Registration"), FirstHourRates(10),
                           ChainDraws),
     ScenarioNonStationary(10, Staff(1), FirstHourRates(10), {SimulationTime})}

BeginRunSimulationNonStationaryChain ==
    /\ reps = 0
    /\ CallRunSimulationNonStationary(ScenariosNonStationaryChain, MaxChain)

NextChain ==
    \/ BeginRunSimulationNonStationaryChain
    \/ DispatchArrivalNS
    \/ DispatchEndSignInTriage
    \/ DispatchEndRegistration
    \/ DispatchEndExamination
    \/ DispatchEndTrauma
    \/ DispatchEndTreatment
    \/ ReturnRunSimulationNonStationary

SpecChain == Init /\ [][NextChain]_vars

(* The service-level checks alone, on every input of CIInputs.              *)
InitCI ==
    /\ InitSim
    /\ ci_results \in CIInputs
    /\ verdict = NoVerdict
    /\ called = NoCall
    /\ returned = <<>>

NextCI ==
    \/ PrintRunScenarioChecks
    \/ PrintRunScenarioNonStationaryChecks
    \/ CallCheckServiceLevels

SpecCI == InitCI /\ [][NextCI]_vars

(* The helper functions alone, on every argument of their input sets.      *)
NextPure ==
    \/ CallConfidenceInterval
    \/ CallLoadArrivalData
    \/ CallGetCurrentArrivalRate

SpecPure == Init /\ [][NextPure]_vars

-----------------------------------------------------------------------------
(* Properties                                                               *)

MainLoopModule == IF mode = "S" THEN "main" ELSE "ns"

InQueue ==
    Len(Queue["SignInTriage"]) + Len(Queue["Registration"])
        + Len(Queue["Examination"]) + Len(Queue["Trauma"]) + Len(Queue["Treatment"])

InService ==
    Cardinality({i \in 1..Len(Calendar) :
                    Calendar[i].EventType \notin {"Arrival", "ArrivalNS"}})

AllStaffed == \A s \in Stations : staff_levels[s] >= 1

IsPrefix(p, q) ==
    /\ Len(p) <= Len(q)
    /\ \A i \in 1..Len(p) : p[i] = q[i]

TraumaPath == <<"SignInTriage", "Trauma", "Treatment">>

NonTraumaPath == <<"SignInTriage", "Registration", "Examination", "Treatment">>

(* C1: in every state of every replication, of either kind, each of the     *)
(* five resources has 0 <= busy <= capacity, the capacity being the one     *)
(* staff_levels gives the station (0 included).                             *)
C1_BusyWithinCapacity ==
    \A s \in Stations :
        /\ 0 <= Busy[s]
        /\ Busy[s] <= Units[s]
        /\ phase = "loop" => Units[s] = staff_levels[s]

(* A state where capacity binds: every unit of Sign-in/Triage is busy       *)
(* while a patient waits at a Treatment station of capacity 0.              *)
C1_Witness ==
    /\ phase = "loop"
    /\ staff_levels["SignInTriage"] >= 1
    /\ Busy["SignInTriage"] = staff_levels["SignInTriage"]
    /\ staff_levels["Treatment"] = 0
    /\ Busy["Treatment"] = 0
    /\ Len(Queue["Treatment"]) > 0

(* C2: in a stationary replication, between event dispatches,               *)
(* TotalArrivals = PatientsCompleted + patients waiting + patients in       *)
(* service; each discharged patient was counted once; and once the calendar *)
(* is exhausted with every capacity >= 1, PatientsCompleted = TotalArrivals.*)
C2_Conservation ==
    (mode = "S" /\ reps > 0) =>
        /\ TotalArrivals["main"] = PatientsCompleted["main"] + InQueue + InService
        /\ PatientsCompleted["main"] = Cardinality(discharged)
        /\ (Calendar = <<>> /\ AllStaffed) =>
                PatientsCompleted["main"] = TotalArrivals["main"]

(* A stationary replication that ran to the end of its calendar with every  *)
(* patient discharged, trauma and non-trauma.                               *)
C2_Witness ==
    /\ mode = "S"
    /\ phase = "loop"
    /\ Calendar = <<>>
    /\ AllStaffed
    /\ PatientsCompleted["main"] = MaxPatients
    /\ TraumaPatients["main"] >= 1
    /\ NonTraumaPatients["main"] >= 1

(* C3: the 'PatientsCompleted' a non-stationary replication returns is the  *)
(* number of patients discharged in it, and equals the returned             *)
(* 'TotalArrivals' when every capacity is >= 1.                             *)
C3_ReturnedCompleted ==
    (mode = "NS" /\ phase = "idle" /\ reps > 0) =>
        /\ result.PatientsCompleted = Cardinality(discharged)
        /\ AllStaffed => result.PatientsCompleted = result.TotalArrivals

(* C4: when the event loop of a replication starts, Clock = 0, the calendar *)
(* holds at most the seeded first arrival, every queue is empty, every      *)
(* resource is idle, and every counter the replication's handlers increment *)
(* is 0.                                                                    *)
C4_ResetAtStart ==
    fresh =>
        /\ Clock = 0
        /\ Len(Calendar) <= 1
        /\ \A i \in 1..Len(Calendar) :
                Calendar[i].EventType \in {"Arrival", "ArrivalNS"}
        /\ \A s \in Stations : Queue[s] = <<>> /\ Busy[s] = 0
        /\ TotalArrivals[MainLoopModule] = 0
        /\ TraumaPatients[MainLoopModule] = 0
        /\ NonTraumaPatients[MainLoopModule] = 0
        /\ PatientsCompleted["main"] = 0

(* C5: every ArrivalNS event on the calendar of a non-stationary            *)
(* replication, the seeded first one included, has a time strictly before   *)
(* closing.                                                                 *)
C5_ArrivalsBeforeClosing ==
    (mode = "NS" /\ phase = "loop") =>
        \A i \in 1..Len(Calendar) :
            Calendar[i].EventType = "ArrivalNS" =>
                Calendar[i].EventTime < SimulationTime

(* Whether the upper bound of metric k meets its threshold.                 *)
UpperPass(ci, k) ==
    IF k \in {"SignInTriageWait", "TraumaWait"}
        THEN ci[k][4] < Threshold[k]
        ELSE ci[k][4] <= Threshold[k]

(* C6: each of the three service-level checks passes a metric iff its       *)
(* upper CI bound meets the threshold (upper < 2, upper < 5, upper <= 20),  *)
(* so the three agree on every input.                                       *)
C6_ChecksUseUpperBound ==
    /\ "main" \in verdict.ran =>
            \A k \in WaitKeys : verdict.main[k] = UpperPass(ci_results, k)
    /\ "ns" \in verdict.ran =>
            \A k \in WaitKeys : verdict.ns[k] = UpperPass(ci_results, k)
    /\ "optimizer" \in verdict.ran =>
            verdict.optimizer = (\A k \in WaitKeys : UpperPass(ci_results, k))

(* C7: within a replication the Clock, set from each popped event's time,   *)
(* never decreases.                                                         *)
C7_ClockMonotone ==
    [][(phase = "loop" /\ phase' = "loop") => Clock' >= Clock]_vars

(* A replication under way whose next event is due at the current Clock     *)
(* (the equal-times case), some events having been dispatched already.      *)
C7_Witness ==
    /\ phase = "loop"
    /\ ~fresh
    /\ Clock > 0
    /\ Len(Calendar) >= 2
    /\ Head(Calendar).EventTime = Clock

(* C8: every Schedule/SchedulePlus call of a handler has a delay >= 0, and  *)
(* no event on the calendar is due before the current Clock.                *)
C8_NoEventInThePast ==
    /\ \A i \in 1..Len(scheduled) : scheduled[i].delay >= 0
    /\ phase = "loop" =>
            \A i \in 1..Len(Calendar) : Calendar[i].EventTime >= Clock

(* A handler that started an Examination whose sampled duration was         *)
(* negative: the event was scheduled with the floor as its delay.           *)
C8_Witness ==
    \E i \in 1..Len(scheduled) :
        /\ scheduled[i].EventType = "EndExamination"
        /\ scheduled[i].delay = ExamFloor

(* C9: in both modules TotalArrivals = TraumaPatients + NonTraumaPatients   *)
(* always, and a step that counts an arrival adds 1 to exactly one of       *)
(* TraumaPatients and NonTraumaPatients.                                    *)
C9_ArrivalCounters ==
    /\ [](\A m \in Modules :
            TotalArrivals[m] = TraumaPatients[m] + NonTraumaPatients[m])
    /\ [][\A m \in Modules :
            TotalArrivals'[m] = TotalArrivals[m] + 1 =>
                \/ /\ TraumaPatients'[m] = TraumaPatients[m] + 1
                   /\ NonTraumaPatients'[m] = NonTraumaPatients[m]
                \/ /\ TraumaPatients'[m] = TraumaPatients[m]
                   /\ NonTraumaPatients'[m] = NonTraumaPatients[m] + 1]_vars

(* Both kinds of patients were counted, by Arrival and by                   *)
(* ArrivalNonStationary.                                                    *)
C9_Witness ==
    \A m \in Modules : TraumaPatients[m] >= 1 /\ NonTraumaPatients[m] >= 1

(* C10: the queues a patient entered are, in order, a beginning of          *)
(* SignIn, Trauma, Treatment when its arrival flag says trauma, and of      *)
(* SignIn, Registration, Examination, Treatment otherwise; the flag the     *)
(* patient carries is the one decided at arrival; a waiting patient is in   *)
(* the queue it entered last; a discharged patient went the whole way       *)
(* (Treatment being optional for a non-trauma patient).                     *)
C10_OnePathPerPatient ==
    /\ \A id \in 1..npat :
            IF visits[id].IsTrauma
                THEN IsPrefix(visits[id].path, TraumaPath)
                ELSE IsPrefix(visits[id].path, NonTraumaPath)
    /\ \A s \in Stations : \A i \in 1..Len(Queue[s]) :
            /\ Queue[s][i].IsTrauma = visits[Queue[s][i].id].IsTrauma
            /\ visits[Queue[s][i].id].path # <<>>
            /\ visits[Queue[s][i].id].path[Len(visits[Queue[s][i].id].path)] = s
    /\ \A i \in 1..Len(Calendar) :
            Calendar[i].WhichObject.id # 0 =>
                Calendar[i].WhichObject.IsTrauma
                    = visits[Calendar[i].WhichObject.id].IsTrauma
    /\ \A id \in discharged :
            IF visits[id].IsTrauma
                THEN visits[id].path = TraumaPath
                ELSE Len(visits[id].path) >= 3

(* A trauma patient and a non-trauma patient were both discharged after     *)
(* Treatment.                                                               *)
C10_Witness ==
    \E a, b \in discharged :
        /\ visits[a].IsTrauma
        /\ visits[a].path = TraumaPath
        /\ ~visits[b].IsTrauma
        /\ visits[b].path = NonTraumaPath

(* The draws the last step took from a stream, in order.                    *)
DrawnFrom(d, stream) ==
    SelectSeq(d, LAMBDA e : e.stream = stream)

(* The events of one type the last step scheduled, in order.                *)
ScheduledOf(sch, EventType) ==
    SelectSeq(sch, LAMBDA e : e.EventType = EventType)

(* C11: a step that completes an Examination takes exactly one draw u from  *)
(* the discharge-decision stream; if u < 0.40 the patient is discharged,    *)
(* PatientsCompleted goes up by 1 and the patient does not enter the        *)
(* Treatment queue; otherwise the patient joins the Treatment queue, is not *)
(* discharged and PatientsCompleted is unchanged.                           *)
C11_DischargeOrTreatment ==
    [][Looping("EndExamination") =>
        LET id == Head(Calendar).WhichObject.id
            us == DrawnFrom(drawn', "DischargeDecisionStream")
        IN  /\ Len(us) = 1
            /\ IF us[1].value < DischargePct
                   THEN /\ id \in discharged'
                        /\ PatientsCompleted' =
                               [PatientsCompleted EXCEPT !["main"] = @ + 1]
                        /\ visits'[id].path = visits[id].path
                        /\ \A i \in 1..Len(Queue'["Treatment"]) :
                               Queue'["Treatment"][i].id # id
                        /\ \A i \in 1..Len(Calendar') :
                               Calendar'[i].WhichObject.id # id
                   ELSE /\ id \notin discharged'
                        /\ PatientsCompleted' = PatientsCompleted
                        /\ visits'[id].path = Append(visits[id].path, "Treatment")
                        /\ \/ \E i \in 1..Len(Queue'["Treatment"]) :
                                  Queue'["Treatment"][i].id = id
                           \/ \E i \in 1..Len(scheduled') :
                                  /\ scheduled'[i].EventType = "EndTreatment"
                                  /\ scheduled'[i].who = id]_vars

(* An Examination completion whose draw was exactly 0.40 sent its patient   *)
(* to Treatment, after another patient was discharged at Examination.       *)
C11_Witness ==
    /\ \E i \in 1..Len(drawn) :
            /\ drawn[i].stream = "DischargeDecisionStream"
            /\ drawn[i].value = DischargePct
    /\ Len(Queue["Treatment"]) + Len(ScheduledOf(scheduled, "EndTreatment")) >= 1
    /\ \E id \in discharged :
            ~visits[id].IsTrauma /\ visits[id].path # NonTraumaPath

(* The ticket of the patient at place i of the queue of station s.          *)
TicketOf(s, i) ==
    CHOOSE t \in tickets[s] : t.id = Queue[s][i].id

(* C12: at every station the k-th patient to start service is the k-th      *)
(* patient that joined the queue, and the patients still waiting stand in   *)
(* the order in which they joined.                                          *)
C12_FIFO ==
    \A s \in Stations :
        /\ \A k \in 1..Len(turns[s]) : turns[s][k] = k
        /\ \A i \in 1..Len(Queue[s]) :
                /\ \E t \in tickets[s] : t.id = Queue[s][i].id
                /\ TicketOf(s, i).no = Len(turns[s]) + i

(* Two patients were waiting at Sign-in/Triage together: one of them, that  *)
(* joined first, has just started service after a wait, and the other, that *)
(* joined before this step, is still in the queue.                          *)
C12_Witness ==
    /\ Len(turns["SignInTriage"]) >= 2
    /\ \E i \in 1..Len(waits) :
            /\ waits[i].station = "SignInTriage"
            /\ waits[i].joined < waits[i].at
    /\ Len(Queue["SignInTriage"]) >= 1
    /\ TicketOf("SignInTriage", 1).at < Clock

(* The places (station, index) where patient id stands in a queue.          *)
QueuePlaces(id) ==
    UNION {{<<s, i>> : i \in {j \in 1..Len(Queue[s]) : Queue[s][j].id = id}} :
            s \in Stations}

(* The pending events that carry patient id.                                *)
PendingFor(id) ==
    {i \in 1..Len(Calendar) : Calendar[i].WhichObject.id = id}

(* C13: each patient stands in at most one place of the five queues; a      *)
(* waiting patient is carried by no pending event; a discharged patient is  *)
(* in no queue and carried by no pending event.                             *)
C13_AtMostOneQueue ==
    \A id \in 1..npat :
        /\ Cardinality(QueuePlaces(id)) <= 1
        /\ QueuePlaces(id) # {} => PendingFor(id) = {}
        /\ id \in discharged => QueuePlaces(id) = {} /\ PendingFor(id) = {}

(* One patient waits in a queue while another is in service and a third has *)
(* been discharged.                                                         *)
C13_Witness ==
    /\ phase = "loop"
    /\ \E a, b, c \in 1..npat :
            /\ QueuePlaces(a) # {}
            /\ PendingFor(b) # {}
            /\ c \in discharged

(* The pending events of one type.                                          *)
PendingOf(cal, EventType) ==
    SelectSeq(cal, LAMBDA e : e.EventType = EventType)

(* C14: in a stationary replication a step that dispatches an Arrival at a  *)
(* Clock before closing schedules exactly one next Arrival, with the        *)
(* interarrival draw as its delay whether or not it falls before closing;   *)
(* one that dispatches an Arrival at or after closing schedules none and    *)
(* leaves none pending; no other step schedules an Arrival; so at most one  *)
(* Arrival is pending at any time, and none after one ran at or after       *)
(* closing.                                                                 *)
C14_NextArrival ==
    /\ [](mode = "S" => Len(PendingOf(Calendar, "Arrival")) <= 1)
    /\ [][(mode = "S" /\ phase = "loop" /\ phase' = "loop") =>
            LET next == ScheduledOf(scheduled', "Arrival")
                ias  == DrawnFrom(drawn', "ArrivalStream")
            IN  IF Looping("Arrival") /\ Clock' < SimulationTime
                    THEN /\ Len(next) = 1
                         /\ Len(ias) = 1
                         /\ next[1].delay = ias[1].value
                         /\ Len(PendingOf(Calendar', "Arrival")) = 1
                    ELSE /\ next = <<>>
                         /\ ias = <<>>
                         /\ Looping("Arrival") =>
                                PendingOf(Calendar', "Arrival") = <<>>
                         /\ PendingOf(Calendar, "Arrival") = <<>> =>
                                PendingOf(Calendar', "Arrival") = <<>>]_vars

(* An Arrival scheduled before closing for a time after closing has been    *)
(* dispatched: it counted its patient and scheduled no further Arrival.     *)
C14_Witness ==
    /\ mode = "S"
    /\ phase = "loop"
    /\ npat >= 2
    /\ Clock >= SimulationTime
    /\ DrawnFrom(drawn, "TraumaDecisionStream") # <<>>
    /\ PendingOf(Calendar, "Arrival") = <<>>
    /\ TotalArrivals["main"] = npat

(* C15: when the event loop of a non-stationary replication starts, exactly *)
(* one ArrivalNS event is on the calendar, whatever the rate table.         *)
C15_FirstArrivalSeeded ==
    (mode = "NS" /\ fresh) => Len(PendingOf(Calendar, "ArrivalNS")) = 1

(* The rate, in patients per hour, the table gives the hour of time t.      *)
RateAt(rates, t) ==
    rates[(t \div (60 * TicksPerMinute)) + 1]

(* C16: a step that dispatches an ArrivalNS at a Clock before closing, in   *)
(* an hour whose rate is zero, takes no variate from the arrival stream and *)
(* schedules the next ArrivalNS with a delay of exactly 60 minutes iff      *)
(* Clock + 60 is before closing; otherwise it schedules none.               *)
C16_ZeroRateFallback ==
    [][(mode = "NS" /\ Looping("ArrivalNS") /\ Clock' < SimulationTime
            /\ RateAt(ArrivalRatesByHour', Clock') = 0) =>
        LET next == ScheduledOf(scheduled', "ArrivalNS")
        IN  /\ DrawnFrom(drawn', "ArrivalStream") = <<>>
            /\ IF Clock' + 60 * TicksPerMinute < SimulationTime
                   THEN /\ Len(next) = 1
                        /\ next[1].delay = 60 * TicksPerMinute
                        /\ \E i \in 1..Len(Calendar') :
                               /\ Calendar'[i].EventType = "ArrivalNS"
                               /\ Calendar'[i].EventTime
                                      = Clock' + 60 * TicksPerMinute
                   ELSE /\ next = <<>>
                        /\ PendingOf(Calendar', "ArrivalNS") = <<>>]_vars

(* An ArrivalNS that the fallback had scheduled 60 minutes after a          *)
(* zero-rate arrival has run in a zero-rate hour, 60 minutes before         *)
(* closing, and scheduled nothing.                                          *)
C16_Witness ==
    /\ mode = "NS"
    /\ phase = "loop"
    /\ npat = 2
    /\ Clock + 60 * TicksPerMinute = SimulationTime
    /\ RateAt(ArrivalRatesByHour, Clock) = 0
    /\ DrawnFrom(drawn, "TraumaDecisionStream") # <<>>
    /\ DrawnFrom(drawn, "ArrivalStream") = <<>>
    /\ PendingOf(Calendar, "ArrivalNS") = <<>>

(* C17: while the running replication has trauma fraction 0, TraumaPatients *)
(* is 0, no patient is flagged trauma, the Trauma queue is empty, the       *)
(* Trauma resource is idle, and no EndTrauma event is scheduled or pending. *)
C17_NoTrauma ==
    TraumaPercentage[MainLoopModule] = 0 =>
        /\ TraumaPatients[MainLoopModule] = 0
        /\ \A id \in 1..npat : ~visits[id].IsTrauma
        /\ Queue["Trauma"] = <<>>
        /\ Busy["Trauma"] = 0
        /\ ScheduledOf(scheduled, "EndTrauma") = <<>>
        /\ PendingOf(Calendar, "EndTrauma") = <<>>

(* In a replication with trauma fraction 0 an arrival whose trauma-decision *)
(* draw was 0.0 has just been counted, after a patient was discharged.      *)
C17_Witness ==
    /\ phase = "loop"
    /\ TraumaPercentage[MainLoopModule] = 0
    /\ \E i \in 1..Len(drawn) :
            /\ drawn[i].stream = "TraumaDecisionStream"
            /\ drawn[i].value = 0
    /\ NonTraumaPatients[MainLoopModule] >= 2
    /\ discharged # {}

(* C18: as long as every station has at least as many units as patients     *)
(* have arrived in the replication, every wait a handler records is 0 and   *)
(* no patient is in a queue when the handler has returned.                  *)
C18_NoWaitWhenCapacityNeverBinds ==
    (\A s \in Stations : staff_levels[s] >= npat) =>
        /\ \A i \in 1..Len(waits) : waits[i].wait = 0
        /\ \A s \in Stations : Queue[s] = <<>>

(* As many units as patients everywhere: all the patients of the            *)
(* replication are in service at one station together, the last of them     *)
(* having just started with its wait recorded.                              *)
C18_Witness ==
    /\ phase = "loop"
    /\ npat = MaxPatients
    /\ \A s \in Stations : staff_levels[s] >= npat
    /\ \E s \in Stations : Busy[s] = npat
    /\ waits # <<>>

(* The timestamp of patient p from which the wait at station s counts.      *)
EntryStamp(s, p) ==
    CASE s = "SignInTriage" -> p.CreateTime
      [] s = "Registration" -> p.TriageTime
      [] s = "Trauma"       -> p.TriageTime
      [] s = "Examination"  -> p.RegistrationTime
      [] s = "Treatment"    -> IF p.IsTrauma THEN p.TraumaTime
                                             ELSE p.ExaminationTime

(* C19: each recorded wait is the Clock at the start of the service minus   *)
(* the Clock at which the patient joined the queue, and is >= 0; the        *)
(* timestamp of a waiting patient from which its wait will count is the     *)
(* Clock at which it joined the queue.                                      *)
C19_WaitFromEntry ==
    /\ \A i \in 1..Len(waits) :
            /\ waits[i].wait = waits[i].at - waits[i].joined
            /\ waits[i].wait >= 0
    /\ \A s \in Stations : \A i \in 1..Len(Queue[s]) :
            EntryStamp(s, Queue[s][i]) = TicketOf(s, i).at

(* A trauma patient has just started Treatment after waiting for it: its   *)
(* wait counts from TraumaTime.                                             *)
C19_Witness ==
    \E i \in 1..Len(waits) :
        /\ waits[i].station = "Treatment"
        /\ visits[waits[i].who].IsTrauma
        /\ waits[i].wait > 0

(* C20: a step schedules one EndExamination per draw it took from the       *)
(* Examination stream, each with a delay > 0: the floor of 0.1 minute for a *)
(* draw that is negative or 0, the draw itself otherwise.                   *)
C20_PositiveExamDelay ==
    LET ends  == ScheduledOf(scheduled, "EndExamination")
        draws == DrawnFrom(drawn, "ExaminationStream")
    IN  /\ Len(ends) = Len(draws)
        /\ \A i \in 1..Len(ends) :
                /\ ends[i].delay > 0
                /\ ends[i].delay = IF draws[i].value <= 0 THEN ExamFloor
                                                          ELSE draws[i].value

(* The replication has reached the number of arrivals it is followed for,   *)
(* with a further arrival due next.                                         *)
Capped ==
    /\ phase = "loop"
    /\ npat = cap
    /\ Calendar # <<>>
    /\ Head(Calendar).EventType \in {"Arrival", "ArrivalNS"}

C22_ZeroCapacityStarves ==
    [][\A s \in Stations :
          (phase = "loop" /\ staff_levels[s] = 0) =>
              /\ ~fault'
              /\ Busy'[s] = 0
              /\ IsPrefix(Queue[s], Queue'[s])
              /\ \A i \in 1..Len(Queue'[s]) : Queue'[s][i].id \notin discharged'
              /\ \A i \in 1..Len(waits') : waits'[i].station # s
              /\ \A i \in 1..Len(Calendar') :
                    Calendar'[i].EventType # "End" \o s
              /\ phase' = "idle" =>
                    /\ Calendar' = <<>>
                    /\ result'.Util[s] = Quotient("0", 1)
                    /\ \A t \in Stations : result'.Util[t].divisor > 0
                    /\ \A i \in 1..Len(Queue'[s]) :
                            Queue'[s][i].id \notin discharged'
      ]_vars

(* A replication without Treatment staff has returned: a patient is left in *)
(* the Treatment queue, another one went through the other stations and was *)
(* discharged after Examination.                                            *)
C22_Witness ==
    /\ phase = "idle"
    /\ reps > 0
    /\ staff_levels["Treatment"] = 0
    /\ Len(Queue["Treatment"]) >= 1
    /\ Cardinality(discharged) >= 1
    /\ result.Util["Treatment"] = Quotient("0", 1)
    /\ result.Util["Examination"] = Quotient("Examination", 1)

(* What identifies an event: its type, its time and the patient it carries. *)
EventKey(ev) == <<ev.EventType, ev.EventTime, ev.WhichObject.id>>

(* The events the last step scheduled, as they stand on the calendar.       *)
NewKeys(sch, now) ==
    [i \in 1..Len(sch) |-> <<sch[i].EventType, now + sch[i].delay, sch[i].who>>]

KeysOf(cal) == [i \in 1..Len(cal) |-> EventKey(cal[i])]

Count(seq, e) == Cardinality({i \in 1..Len(seq) : seq[i] = e})

Range(seq) == {seq[i] : i \in 1..Len(seq)}

WhoOf(seq) == [i \in 1..Len(seq) |-> seq[i].who]

(* C23: no event is cancelled or dropped.  A step of the loop removes from  *)
(* the calendar the one event at its head, which is the event its handler   *)
(* runs for, and nothing else: the calendar after the step holds every      *)
(* other event it held, once each, and the events the step scheduled.  The  *)
(* loop ends only on an empty calendar.  Each service a step starts seizes  *)
(* one unit and schedules one End event of that station for that patient in *)
(* the same step, and a unit is given back only by the step that runs for   *)
(* an End event of its station, one unit for one event, never failing.      *)
C23_NoEventDropped ==
    [][phase = "loop" =>
          /\ phase' = "idle" => Calendar = <<>> /\ Calendar' = <<>>
          /\ phase' = "loop" =>
                LET popped == Head(Calendar)
                    rest   == KeysOf(Tail(Calendar))
                    new    == NewKeys(scheduled', Clock')
                    now    == KeysOf(Calendar')
                IN  /\ Clock' = popped.EventTime
                    /\ Len(now) = Len(rest) + Len(new)
                    /\ \A k \in Range(now) \cup Range(rest) \cup Range(new) :
                            Count(now, k) = Count(rest, k) + Count(new, k)
                    /\ popped.EventType \in {"Arrival", "ArrivalNS"}
                            <=> npat' = npat + 1
                    /\ ~fault'
                    /\ \A s \in Stations :
                        LET ends    == ScheduledOf(scheduled', "End" \o s)
                            started == SelectSeq(waits', LAMBDA w : w.station = s)
                            freed   == IF popped.EventType = "End" \o s
                                          THEN 1 ELSE 0
                        IN  /\ Busy'[s] = Busy[s] - freed + Len(ends)
                            /\ Busy[s] - freed >= 0
                            /\ WhoOf(ends) = WhoOf(started)
                            /\ freed = 1 =>
                                  popped.WhichObject.id \notin Range(WhoOf(ends))
      ]_vars

(* A step has run for an End event while other events were pending, started *)
(* the service of a waiting patient and scheduled its End event.            *)
C23_Witness ==
    /\ phase = "loop"
    /\ Len(Calendar) >= 2
    /\ Len(waits) >= 1
    /\ waits[1].wait > 0
    /\ \E s \in Stations :
            /\ Len(ScheduledOf(scheduled, "End" \o s)) = 1
            /\ Busy[s] = Units[s]
            /\ waits[1].station = s

(* C24: for any list of N >= 1 observations ConfidenceInterval returns      *)
(* (mean, half_width, lower, upper) where mean is the arithmetic mean,      *)
(* half_width >= 0, lower = mean - half_width and upper = mean +            *)
(* half_width, hence lower <= mean <= upper.                                *)
C24_IntervalAroundMean ==
    (called.f = "ConfidenceInterval" /\ Len(called.args[1]) >= 1) =>
        LET data == called.args[1]
        IN  /\ returned[1] * Len(data) = SumSeq(data)
            /\ returned[2] >= 0
            /\ returned[3] = returned[1] - returned[2]
            /\ returned[4] = returned[1] + returned[2]
            /\ returned[3] <= returned[1]
            /\ returned[1] <= returned[4]

(* C25: when every observation is non-negative, every component of the     *)
(* tuple ConfidenceInterval returns, the lower bound included, is           *)
(* non-negative.                                                            *)
C25_NonNegativeInterval ==
    (/\ called.f = "ConfidenceInterval"
     /\ \A i \in 1..Len(called.args[1]) : called.args[1][i] >= 0) =>
        \A k \in 1..4 : returned[k] >= 0

(* A row that has a count in each of the 18 hours.                          *)
IsWholeRow(row) ==
    /\ Len(row) >= SimulationHours
    /\ \A hour \in 1..SimulationHours : row[hour].kind = "int"

(* C27: LoadArrivalData skips malformed and short rows entirely: the rates  *)
(* are, hour by hour, the totals of the whole rows divided by the number of *)
(* whole rows; without any whole row they are 10.0 for all 18 hours.        *)
C27_MalformedRowsSkipped ==
    called.f = "LoadArrivalData" =>
        LET whole == SelectSeq(called.args[1], IsWholeRow)
        IN  /\ DOMAIN returned = 1..SimulationHours
            /\ \A hour \in 1..SimulationHours :
                    IF whole = <<>>
                        THEN returned[hour] = 10
                        ELSE returned[hour] * Len(whole) =
                                SumSeq([i \in 1..Len(whole) |->
                                            whole[i][hour].value])

(* The smaller of two numbers.                                              *)
Min(a, b) == IF a <= b THEN a ELSE b

SameName(EventType) ==
    IF EventType = "ArrivalNS" THEN "Arrival" ELSE EventType

SameNames(seq) ==
    [i \in 1..Len(seq) |-> [seq[i] EXCEPT !.EventType = SameName(@)]]

(* What a replication run by module m shows: its clock, its pending events, *)
(* its stations, its counters, its patients and what its last step drew,    *)
(* recorded and scheduled.                                                  *)
Shown(st, m) ==
    [Clock |-> st.Clock, Calendar |-> SameNames(st.Calendar), Busy |-> st.Busy,
     Units |-> st.Units, Queue |-> st.Queue,
     TotalArrivals |-> st.TotalArrivals[m],
     TraumaPatients |-> st.TraumaPatients[m],
     NonTraumaPatients |-> st.NonTraumaPatients[m],
     visits |-> st.visits, discharged |-> st.discharged, waits |-> st.waits,
     drawn |-> st.drawn, scheduled |-> SameNames(st.scheduled)]

(* The state of a non-stationary replication, handed to module main.        *)
AsStationary(st) ==
    [st EXCEPT !.TotalArrivals["main"] = st.TotalArrivals["ns"],
               !.TraumaPatients["main"] = st.TraumaPatients["ns"],
               !.NonTraumaPatients["main"] = st.NonTraumaPatients["ns"],
               !.TraumaPercentage["main"] = st.TraumaPercentage["ns"],
               !.Calendar = SameNames(@)]

ValuesOf(d) == [i \in 1..Len(d) |-> d[i].value]

(* A table of 18 equal positive rates.                                      *)
IsConstantTable(rates) ==
    /\ Len(rates) = SimulationHours
    /\ rates[1] > 0
    /\ \A h \in 1..SimulationHours : rates[h] = rates[1]

(* C26: with a table of 18 equal positive rates, a non-stationary           *)
(* replication does what a stationary one does on the same variates: its    *)
(* set-up and each of its arrival steps leave the state RunSimulation and   *)
(* Arrival leave (every other handler is the same code in both modes), and  *)
(* it returns the result the stationary replication returns.                *)
C26_ConstantTableAsStationary ==
    [][(mode' = "NS" /\ IsConstantTable(ArrivalRatesByHour')) =>
          LET arrivals == ValuesOf(DrawnFrom(drawn', "ArrivalStream"))
              ia == IF arrivals = <<>> THEN 0 ELSE arrivals[1]
          IN  /\ (phase = "idle" /\ phase' = "loop") =>
                    Shown(State', "ns") =
                        Shown(RunSimulation(AsStationary(ClearHistory(State)),
                                            TraumaPercentage'["ns"],
                                            staff_levels', ia), "main")
              /\ (Looping("ArrivalNS") /\ phase' = "loop") =>
                    Shown(State', "ns") =
                        Shown(Arrival(AsStationary(Popped(State)),
                                ValuesOf(DrawnFrom(drawn',
                                                   "TraumaDecisionStream"))[1],
                                ValuesOf(DrawnFrom(drawn', "TriageStream")),
                                ia), "main")
              /\ (phase = "loop" /\ phase' = "idle") =>
                    result' = [TotalArrivals |-> TotalArrivals["ns"],
                               TraumaPatients |-> TraumaPatients["ns"],
                               PatientsCompleted |-> Cardinality(discharged),
                               Util |-> [s \in Stations |-> Util(s)]]
      ]_vars

(* C28: in a non-stationary replication, a sampled interarrival time that   *)
(* puts the next arrival in a later hour of the table than the hour of the  *)
(* Clock is discarded: the step schedules no arrival with it, and no        *)
(* arrival is pending at Clock + delay.                                     *)
C28_CrossingDrawDiscarded ==
    [][(mode = "NS" /\ Looping("ArrivalNS") /\ phase' = "loop") =>
          LET sampled == ValuesOf(DrawnFrom(drawn', "ArrivalStream"))
          IN  \A i \in 1..Len(sampled) :
                (Clock' + sampled[i]) \div (60 * TicksPerMinute)
                        > Clock' \div (60 * TicksPerMinute) =>
                    /\ ScheduledOf(scheduled', "ArrivalNS") = <<>>
                    /\ \A k \in 1..Len(Calendar') :
                          ~(/\ Calendar'[k].EventType = "ArrivalNS"
                            /\ Calendar'[k].EventTime = Clock' + sampled[i])
      ]_vars

(* The places of the sequence whose entry is of one of the types.           *)
PlacesOf(seq, types) ==
    {i \in 1..Len(seq) : seq[i].EventType \in types}

ArrivalTypes == {"Arrival", "ArrivalNS"}

(* C30: a step that runs for an arrival, in either mode, decides the trauma *)
(* status first (the first variate it takes, and the only one from that     *)
(* stream), then enqueues the patient at Sign-in/Triage and drains the      *)
(* station (so the patient is served in that step when it finds a free      *)
(* unit), then takes the interarrival variate, if any, and schedules the    *)
(* next arrival, if any.  So every EndSignInTriage of the step is scheduled *)
(* before the next arrival and, when their times are equal, stands before   *)
(* it on the calendar and is dispatched first.                              *)
C30_ArrivalHandlerOrder ==
    [][((Looping("Arrival") \/ Looping("ArrivalNS")) /\ phase' = "loop") =>
          LET streams == [i \in 1..Len(drawn') |-> drawn'[i].stream]
              ends == PlacesOf(scheduled', {"EndSignInTriage"})
              nexts == PlacesOf(scheduled', ArrivalTypes)
              served == {waits'[i].who : i \in 1..Len(waits')}
          IN  /\ npat' = npat + 1
              /\ Len(streams) >= 1
              /\ streams[1] = "TraumaDecisionStream"
              /\ \A i \in 2..Len(streams) :
                    \/ streams[i] = "TriageStream"
                    \/ streams[i] = "ArrivalStream" /\ i = Len(streams)
              /\ visits'[npat'].path = <<"SignInTriage">>
              /\ (Busy["SignInTriage"] < Units["SignInTriage"]
                        /\ Queue["SignInTriage"] = <<>>) <=> npat' \in served
              /\ npat' \notin served =>
                    /\ Queue'["SignInTriage"] # <<>>
                    /\ Queue'["SignInTriage"][Len(Queue'["SignInTriage"])].id
                            = npat'
              /\ Cardinality(nexts) <= 1
              /\ \A i \in ends, j \in nexts : i < j
              /\ \A i \in PlacesOf(Calendar', {"EndSignInTriage"}),
                    j \in PlacesOf(Calendar', ArrivalTypes) :
                        Calendar'[i].EventTime = Calendar'[j].EventTime => i < j
      ]_vars

(* An arrival step has started the service of its patient and scheduled the *)
(* next arrival for the very time of the EndSignInTriage: the               *)
(* EndSignInTriage stands first on the calendar.                            *)
C30_Witness ==
    /\ phase = "loop"
    /\ Len(scheduled) = 2
    /\ scheduled[1].EventType = "EndSignInTriage"
    /\ scheduled[2].EventType \in ArrivalTypes
    /\ scheduled[1].delay = scheduled[2].delay
    /\ Len(Calendar) >= 2
    /\ Calendar[1].EventType = "EndSignInTriage"
    /\ Calendar[2].EventType \in ArrivalTypes
    /\ Calendar[1].EventTime = Calendar[2].EventTime

-----------------------------------------------------------------------------
(* C31: work conservation.  Whenever a handler has returned, in either     *)
(* mode and for every capacity (0 included), no station has both a waiting  *)
(* patient and a free unit: a non-empty queue implies busy = capacity.      *)
C31_WorkConservation ==
    \A s \in Stations :
        Len(Queue[s]) > 0 => Busy[s] = Units[s]

(* A completion handler has given a unit of a staffed station back and its  *)
(* re-drain has started the next patient, while a further patient still     *)
(* waits there with every unit busy.                                        *)
C31_Witness ==
    /\ phase = "loop"
    /\ \E s \in Stations :
            /\ Units[s] >= 1
            /\ Len(turns[s]) >= 2
            /\ \E i \in 1..Len(waits) : waits[i].station = s
            /\ \E i \in 1..Len(scheduled) : scheduled[i].EventType = "End" \o s
            /\ Len(Queue[s]) > 0
            /\ Busy[s] = Units[s]

-----------------------------------------------------------------------------
(* The completion event of each station.                                    *)
EndOf == [s \in Stations |-> "End" \o s]

(* C32: between event dispatches the busy count of each station's resource  *)
(* equals the number of pending completion events of that station on the    *)
(* calendar; so Free is never called on a resource whose busy count is 0,   *)
(* and when the calendar is exhausted every resource has busy = 0.          *)
C32_BusyIsPendingCompletions ==
    /\ ~fault
    /\ \A s \in Stations :
            Busy[s] = Cardinality({i \in 1..Len(Calendar) :
                                    Calendar[i].EventType = EndOf[s]})
    /\ Calendar = <<>> => \A s \in Stations : Busy[s] = 0

(* Two units of one station are busy, with the two completions pending,     *)
(* after both units of another station were seized and given back.          *)
C32_Witness ==
    /\ phase = "loop"
    /\ \E s, t \in Stations :
            /\ Busy[s] = 2
            /\ Cardinality({i \in 1..Len(Calendar) :
                                Calendar[i].EventType = EndOf[s]}) = 2
            /\ Len(turns[t]) = 2
            /\ Busy[t] = 0

-----------------------------------------------------------------------------
(* The patients of this replication that arrived at a Clock of 60 minutes   *)
(* or later.                                                                *)
LateArrivals ==
    {id \in 1..npat : visits[id].CreateTime >= 60 * TicksPerMinute}

FirstHourOnly(rates) ==
    /\ rates[1] > 0
    /\ \A h \in 2..SimulationHours : rates[h] = 0

(* C33: in a non-stationary replication on a rate table whose entry 0 is    *)
(* positive and whose entries 1..17 are all 0, at most 17 arrivals are      *)
(* dispatched at Clock >= 60, and consecutive arrivals at Clock >= 60 are   *)
(* exactly 60 minutes apart.                                                *)
C33_FallbackChainOnly ==
    (mode = "NS" /\ FirstHourOnly(ArrivalRatesByHour)) =>
        /\ Cardinality(LateArrivals) <= SimulationHours - 1
        /\ \A id \in 2..npat :
                (id - 1) \in LateArrivals =>
                    visits[id].CreateTime
                        = visits[id - 1].CreateTime + 60 * TicksPerMinute

(* A replication with two arrivals in the first hour and then the whole     *)
(* chain: seventeen arrivals at Clock >= 60, the last in the last hour.     *)
C33_Witness ==
    /\ mode = "NS"
    /\ FirstHourOnly(ArrivalRatesByHour)
    /\ Cardinality(LateArrivals) = SimulationHours - 1
    /\ npat = SimulationHours + 1
    /\ visits[npat].CreateTime >= (SimulationHours - 1) * 60 * TicksPerMinute

=============================================================================
